---- MODULE Spec2Model ----
(***************************************************************************)
(* A model of the cut_optimizer placement engine: the guillotine bin       *)
(* (src/src/guillotine.rs) and the solver (src/src/solver.rs).             *)
(*                                                                         *)
(* Conventions.  Vec<T> is a sequence; Rust index i is TLA+ index i + 1.   *)
(* Option<T> is a sequence of length 0 (None) or 1 (Some).  A (u64, u64)   *)
(* score is a pair <<primary, secondary>> compared lexicographically.      *)
(***************************************************************************)
EXTENDS Integers, Sequences, FiniteSets, TLC

(***************************************************************************)
(* Bounds of the model.                                                    *)
(***************************************************************************)
MaxStockDim == 3
MaxPieceDim == 2
MaxPieceArea == 2
MaxKerf == 1
MaxDemands == 2
MaxQty == 2
MaxPieces == 3

(***************************************************************************)
(* Option<T>                                                               *)
(***************************************************************************)
None == << >>
Some(v) == << v >>
IsSome(o) == Len(o) = 1
IsNone(o) == Len(o) = 0
Unwrap(o) == o[1]

Min(a, b) == IF a < b THEN a ELSE b
Max(a, b) == IF a > b THEN a ELSE b

\* u32::saturating_sub
SaturatingSub(a, b) == IF a > b THEN a - b ELSE 0

\* u64::div_ceil
DivCeil(a, b) == (a + b - 1) \div b

(***************************************************************************)
(* types.rs                                                                *)
(***************************************************************************)
CutDirections == {"Auto", "AlongLength", "AlongWidth"}
StockGrains == {"None", "AlongLength", "AlongWidth"}
PieceGrains == {"Auto", "Length", "Width"}
RotationConstraints == {"NoRotate", "ForceRotate", "Free"}

Rect(l, w) == [length |-> l, width |-> w]

area(r) == r.length * r.width

rotated(r) == [length |-> r.width, width |-> r.length]

\* fits_in with the width test left out
FitsInLengthOnly(r, other) == r.length <= other.length

fits_in(r, other) == r.length <= other.length /\ r.width <= other.width

\* RotationConstraint::from_grain (section 4.2, step 1)
from_grain(stock_grain, piece_grain, allow_rotate) ==
  IF stock_grain = "None" \/ piece_grain = "Auto"
  THEN (IF allow_rotate THEN "Free" ELSE "NoRotate")
  ELSE IF (stock_grain = "AlongLength" /\ piece_grain = "Length")
          \/ (stock_grain = "AlongWidth" /\ piece_grain = "Width")
       THEN "NoRotate"
       ELSE "ForceRotate"

\* RotationConstraint::with_cut_direction (section 4.2, steps 2 and 3)
with_cut_direction(constraint, cut_direction, piece) ==
  IF constraint # "Free" \/ piece.length = piece.width
  THEN constraint
  ELSE CASE cut_direction = "AlongLength" ->
              (IF piece.length < piece.width THEN "ForceRotate" ELSE "NoRotate")
         [] cut_direction = "AlongWidth" ->
              (IF piece.width < piece.length THEN "ForceRotate" ELSE "NoRotate")
         [] OTHER -> constraint

(***************************************************************************)
(* guillotine.rs                                                           *)
(***************************************************************************)
ScoreStrategies == <<"BestAreaFit", "BestShortSideFit", "BestLongSideFit">>

FreeRect(x, y, r) == [x |-> x, y |-> y, rect |-> r]

\* GuillotineBin::new with a kerf taken off the far edges of the stock
NewBinKerfMargin(stock, kerf, cut_direction) ==
  [stock |-> stock, kerf |-> kerf, cut_direction |-> cut_direction,
   free_rects |-> << [x |-> 0, y |-> 0,
                      rect |-> Rect(SaturatingSub(stock.length, kerf),
                                    SaturatingSub(stock.width, kerf))] >>,
   placements |-> << >>]

\* GuillotineBin::new
NewBin(stock, kerf, cut_direction) ==
  [stock |-> stock, kerf |-> kerf, cut_direction |-> cut_direction,
   free_rects |-> << FreeRect(0, 0, stock) >>,
   placements |-> << >>]

RECURSIVE SumAreas(_)
SumAreas(rs) == IF rs = << >> THEN 0 ELSE area(rs[1].rect) + SumAreas(Tail(rs))

\* GuillotineBin::used_area
used_area(bin) == SumAreas(bin.placements)

\* A tuple comparison that also holds for equal scores
ScoreLessOrEqual(a, b) == a[1] < b[1] \/ (a[1] = b[1] /\ a[2] <= b[2])

\* (u64, u64) tuple ordering
ScoreLess(a, b) == a[1] < b[1] \/ (a[1] = b[1] /\ a[2] < b[2])

\* GuillotineBin::score; only called when piece fits in free
score(piece, free, strategy) ==
  LET dl == free.length - piece.length
      dw == free.width - piece.width
  IN CASE strategy = "BestAreaFit" -> << area(free) - area(piece), Min(dl, dw) >>
       [] strategy = "BestShortSideFit" -> << Min(dl, dw), Max(dl, dw) >>
       [] strategy = "BestLongSideFit" -> << Max(dl, dw), Min(dl, dw) >>

ScoredPlacement(idx, rot, sc) == [free_idx |-> idx, rotated |-> rot, score |-> sc]

\* The loop body of find_best trying the rotated piece whatever the constraint
FindBestVisitAnyRotation(bin, piece, rotation, strategy, idx, best) ==
  LET free == bin.free_rects[idx]
      try_normal == rotation # "ForceRotate"
      b1 == IF try_normal /\ fits_in(piece, free.rect)
            THEN LET sc == score(piece, free.rect, strategy)
                 IN IF IsNone(best) \/ ScoreLess(sc, Unwrap(best).score)
                    THEN Some(ScoredPlacement(idx, FALSE, sc))
                    ELSE best
            ELSE best
      rp == rotated(piece)
      b2 == IF fits_in(rp, free.rect)
            THEN LET sc == score(rp, free.rect, strategy)
                 IN IF IsNone(b1) \/ ScoreLess(sc, Unwrap(b1).score)
                    THEN Some(ScoredPlacement(idx, TRUE, sc))
                    ELSE b1
            ELSE b1
  IN b2

\* One iteration of the loop of find_best: free rect number idx, best so far
FindBestVisit(bin, piece, rotation, strategy, idx, best) ==
  LET free == bin.free_rects[idx]
      try_normal == rotation # "ForceRotate"
      try_rotated == rotation # "NoRotate"
      b1 == IF try_normal /\ fits_in(piece, free.rect)
            THEN LET sc == score(piece, free.rect, strategy)
                 IN IF IsNone(best) \/ ScoreLess(sc, Unwrap(best).score)
                    THEN Some(ScoredPlacement(idx, FALSE, sc))
                    ELSE best
            ELSE best
      rp == rotated(piece)
      b2 == IF try_rotated /\ fits_in(rp, free.rect)
            THEN LET sc == score(rp, free.rect, strategy)
                 IN IF IsNone(b1) \/ ScoreLess(sc, Unwrap(b1).score)
                    THEN Some(ScoredPlacement(idx, TRUE, sc))
                    ELSE b1
            ELSE b1
  IN b2

RECURSIVE FindBestFrom(_, _, _, _, _, _)
FindBestFrom(bin, piece, rotation, strategy, idx, best) ==
  IF idx > Len(bin.free_rects)
  THEN best
  ELSE FindBestFrom(bin, piece, rotation, strategy, idx + 1,
                    FindBestVisit(bin, piece, rotation, strategy, idx, best))

\* find_best that looks at the first free rect only
FindBestFirstOnly(bin, piece, rotation, strategy) ==
  IF bin.free_rects = << >> THEN None
  ELSE FindBestVisit(bin, piece, rotation, strategy, 1, None)

\* GuillotineBin::find_best
find_best(bin, piece, rotation, strategy) ==
  FindBestFrom(bin, piece, rotation, strategy, 1, None)

\* A removal that always drops the last element
RemoveLast(s, i) == SubSeq(s, 1, Len(s) - 1)

\* Vec::swap_remove
swap_remove(s, i) ==
  LET n == Len(s)
  IN IF i = n THEN SubSeq(s, 1, n - 1)
     ELSE [SubSeq(s, 1, n - 1) EXCEPT ![i] = s[n]]

\* split that leaves no kerf between the piece and the remainders
SplitNoKerf(kerf, cut_direction, free, placed) ==
  LET right_l == SaturatingSub(free.rect.length, placed.length)
      bottom_w == SaturatingSub(free.rect.width, placed.width)
      split_horizontally ==
        CASE cut_direction = "Auto" ->
               free.rect.length - placed.length < free.rect.width - placed.width
          [] cut_direction = "AlongLength" -> TRUE
          [] cut_direction = "AlongWidth" -> FALSE
  IN IF right_l > 0 /\ bottom_w > 0
     THEN IF split_horizontally
          THEN << FreeRect(free.x + placed.length, free.y, Rect(right_l, placed.width)),
                  FreeRect(free.x, free.y + placed.width, Rect(free.rect.length, bottom_w)) >>
          ELSE << FreeRect(free.x + placed.length, free.y, Rect(right_l, free.rect.width)),
                  FreeRect(free.x, free.y + placed.width, Rect(placed.length, bottom_w)) >>
     ELSE IF right_l > 0
     THEN << FreeRect(free.x + placed.length, free.y, Rect(right_l, free.rect.width)) >>
     ELSE IF bottom_w > 0
     THEN << FreeRect(free.x, free.y + placed.width, Rect(free.rect.length, bottom_w)) >>
     ELSE << >>

\* split whose Auto rule is the other way round
SplitAutoFlipped(kerf, cut_direction, free, placed) ==
  LET right_l == SaturatingSub(free.rect.length, placed.length + kerf)
      bottom_w == SaturatingSub(free.rect.width, placed.width + kerf)
      split_horizontally ==
        CASE cut_direction = "Auto" ->
               free.rect.length - placed.length >= free.rect.width - placed.width
          [] cut_direction = "AlongLength" -> TRUE
          [] cut_direction = "AlongWidth" -> FALSE
  IN IF right_l > 0 /\ bottom_w > 0
     THEN IF split_horizontally
          THEN << FreeRect(free.x + placed.length + kerf, free.y,
                           Rect(right_l, placed.width)),
                  FreeRect(free.x, free.y + placed.width + kerf,
                           Rect(free.rect.length, bottom_w)) >>
          ELSE << FreeRect(free.x + placed.length + kerf, free.y,
                           Rect(right_l, free.rect.width)),
                  FreeRect(free.x, free.y + placed.width + kerf,
                           Rect(placed.length, bottom_w)) >>
     ELSE IF right_l > 0
     THEN << FreeRect(free.x + placed.length + kerf, free.y,
                      Rect(right_l, free.rect.width)) >>
     ELSE IF bottom_w > 0
     THEN << FreeRect(free.x, free.y + placed.width + kerf,
                      Rect(free.rect.length, bottom_w)) >>
     ELSE << >>

\* split whose two remainders both run to the far edges of the free rect
SplitBothFull(kerf, cut_direction, free, placed) ==
  LET right_l == SaturatingSub(free.rect.length, placed.length + kerf)
      bottom_w == SaturatingSub(free.rect.width, placed.width + kerf)
  IN IF right_l > 0 /\ bottom_w > 0
     THEN << FreeRect(free.x + placed.length + kerf, free.y,
                      Rect(right_l, free.rect.width)),
             FreeRect(free.x, free.y + placed.width + kerf,
                      Rect(free.rect.length, bottom_w)) >>
     ELSE IF right_l > 0
     THEN << FreeRect(free.x + placed.length + kerf, free.y,
                      Rect(right_l, free.rect.width)) >>
     ELSE IF bottom_w > 0
     THEN << FreeRect(free.x, free.y + placed.width + kerf,
                      Rect(free.rect.length, bottom_w)) >>
     ELSE << >>

\* split whose single remainder is only as wide, or as long, as the piece
SplitSingleShort(kerf, cut_direction, free, placed) ==
  LET right_l == SaturatingSub(free.rect.length, placed.length + kerf)
      bottom_w == SaturatingSub(free.rect.width, placed.width + kerf)
      split_horizontally ==
        CASE cut_direction = "Auto" ->
               free.rect.length - placed.length < free.rect.width - placed.width
          [] cut_direction = "AlongLength" -> TRUE
          [] cut_direction = "AlongWidth" -> FALSE
  IN IF right_l > 0 /\ bottom_w > 0
     THEN IF split_horizontally
          THEN << FreeRect(free.x + placed.length + kerf, free.y,
                           Rect(right_l, placed.width)),
                  FreeRect(free.x, free.y + placed.width + kerf,
                           Rect(free.rect.length, bottom_w)) >>
          ELSE << FreeRect(free.x + placed.length + kerf, free.y,
                           Rect(right_l, free.rect.width)),
                  FreeRect(free.x, free.y + placed.width + kerf,
                           Rect(placed.length, bottom_w)) >>
     ELSE IF right_l > 0
     THEN << FreeRect(free.x + placed.length + kerf, free.y,
                      Rect(right_l, placed.width)) >>
     ELSE IF bottom_w > 0
     THEN << FreeRect(free.x, free.y + placed.width + kerf,
                      Rect(placed.length, bottom_w)) >>
     ELSE << >>

\* GuillotineBin::split: the free rects it pushes, in push order
split(kerf, cut_direction, free, placed) ==
  LET right_l == SaturatingSub(free.rect.length, placed.length + kerf)
      bottom_w == SaturatingSub(free.rect.width, placed.width + kerf)
      split_horizontally ==
        CASE cut_direction = "Auto" ->
               free.rect.length - placed.length < free.rect.width - placed.width
          [] cut_direction = "AlongLength" -> TRUE
          [] cut_direction = "AlongWidth" -> FALSE
  IN IF right_l > 0 /\ bottom_w > 0
     THEN IF split_horizontally
          THEN << FreeRect(free.x + placed.length + kerf, free.y,
                           Rect(right_l, placed.width)),
                  FreeRect(free.x, free.y + placed.width + kerf,
                           Rect(free.rect.length, bottom_w)) >>
          ELSE << FreeRect(free.x + placed.length + kerf, free.y,
                           Rect(right_l, free.rect.width)),
                  FreeRect(free.x, free.y + placed.width + kerf,
                           Rect(placed.length, bottom_w)) >>
     ELSE IF right_l > 0
     THEN << FreeRect(free.x + placed.length + kerf, free.y,
                      Rect(right_l, free.rect.width)) >>
     ELSE IF bottom_w > 0
     THEN << FreeRect(free.x, free.y + placed.width + kerf,
                      Rect(free.rect.length, bottom_w)) >>
     ELSE << >>

\* GuillotineBin::try_merge
try_merge(a, b, cut_direction) ==
  IF cut_direction # "AlongWidth" /\ a.y = b.y /\ a.rect.width = b.rect.width
     /\ a.x + a.rect.length = b.x
  THEN Some(FreeRect(a.x, a.y, Rect(a.rect.length + b.rect.length, a.rect.width)))
  ELSE IF cut_direction # "AlongWidth" /\ a.y = b.y /\ a.rect.width = b.rect.width
          /\ b.x + b.rect.length = a.x
  THEN Some(FreeRect(b.x, b.y, Rect(a.rect.length + b.rect.length, a.rect.width)))
  ELSE IF cut_direction # "AlongLength" /\ a.x = b.x /\ a.rect.length = b.rect.length
          /\ a.y + a.rect.width = b.y
  THEN Some(FreeRect(a.x, a.y, Rect(a.rect.length, a.rect.width + b.rect.width)))
  ELSE IF cut_direction # "AlongLength" /\ a.x = b.x /\ a.rect.length = b.rect.length
          /\ b.y + b.rect.width = a.y
  THEN Some(FreeRect(b.x, b.y, Rect(a.rect.length, a.rect.width + b.rect.width)))
  ELSE None

\* The pairs (i, j), i < j, that try_merge accepts
MergeablePairs(frs, cut_direction) ==
  { p \in (1..Len(frs)) \X (1..Len(frs)) :
      p[1] < p[2] /\ IsSome(try_merge(frs[p[1]], frs[p[2]], cut_direction)) }

\* The pair the nested loops of merge_free_rects reach first
FirstPair(ps) ==
  CHOOSE p \in ps : \A q \in ps : p[1] < q[1] \/ (p[1] = q[1] /\ p[2] <= q[2])

\* merge_free_rects that merges nothing
MergeNothing(frs, cut_direction) == frs

\* GuillotineBin::merge_free_rects
RECURSIVE merge_free_rects(_, _)
merge_free_rects(frs, cut_direction) ==
  LET ps == MergeablePairs(frs, cut_direction)
  IN IF ps = {} THEN frs
     ELSE LET p == FirstPair(ps)
              m == Unwrap(try_merge(frs[p[1]], frs[p[2]], cut_direction))
          IN merge_free_rects(swap_remove([frs EXCEPT ![p[1]] = m], p[2]),
                              cut_direction)

Placement(r, x, y, rot) == [rect |-> r, x |-> x, y |-> y, rotated |-> rot]

\* A Placement recorded at the origin of the sheet whatever free rect was
\* chosen
PlacementAtOrigin(bin, scored, piece) ==
  Placement(IF scored.rotated THEN rotated(piece) ELSE piece, 0, 0, scored.rotated)

\* The Placement that place builds and returns
PlacementOf(bin, scored, piece) ==
  LET free == bin.free_rects[scored.free_idx]
  IN Placement(IF scored.rotated THEN rotated(piece) ELSE piece,
               free.x, free.y, scored.rotated)

\* place that leaves the used free rectangle in the list
PlaceKeepsFree(bin, scored, piece) ==
  LET free == bin.free_rects[scored.free_idx]
      placement == PlacementOf(bin, scored, piece)
      pushed == bin.free_rects \o split(bin.kerf, bin.cut_direction, free, placement.rect)
  IN [bin EXCEPT !.free_rects = merge_free_rects(pushed, bin.cut_direction),
                 !.placements = Append(bin.placements, placement)]

\* GuillotineBin::place: the bin after the call
place(bin, scored, piece) ==
  LET free == bin.free_rects[scored.free_idx]
      placement == PlacementOf(bin, scored, piece)
      removed == swap_remove(bin.free_rects, scored.free_idx)
      pushed == removed \o split(bin.kerf, bin.cut_direction, free, placement.rect)
  IN [bin EXCEPT !.free_rects = merge_free_rects(pushed, bin.cut_direction),
                 !.placements = Append(bin.placements, placement)]

(***************************************************************************)
(* solver.rs.  A Solver value `self` is the record of its five fields.  A  *)
(* bin list is carried as [bins, ids]: bins is the Vec<GuillotineBin> of   *)
(* the code, ids is history added by the model: ids[b][k] is the index in  *)
(* the expanded piece list of the piece behind placement k of bin b.       *)
(***************************************************************************)
Demand(r, q, allow, g) == [rect |-> r, qty |-> q, allow_rotate |-> allow, grain |-> g]

Solver(stock, kerf, cut_direction, stock_grain, demands) ==
  [stock |-> stock, kerf |-> kerf, cut_direction |-> cut_direction,
   stock_grain |-> stock_grain, demands |-> demands]

Piece(r, rot) == [rect |-> r, rotation |-> rot]

\* expand_demands without the cut-direction bias
EffectiveRotationNoBias(self, d) ==
  from_grain(self.stock_grain, d.grain, d.allow_rotate)

\* expand_demands that takes the stock to have no grain
EffectiveRotationGrainIgnored(self, d) ==
  with_cut_direction(from_grain("None", d.grain, d.allow_rotate),
                     self.cut_direction, d.rect)

\* The rotation constraint expand_demands resolves for a demand
EffectiveRotation(self, d) ==
  with_cut_direction(from_grain(self.stock_grain, d.grain, d.allow_rotate),
                     self.cut_direction, d.rect)

\* qty copies of a piece
Copies(p, n) == [i \in 1..n |-> p]

\* The loop of expand_demands pushing one piece per demand
RECURSIVE ExpandOnePerDemand(_, _)
ExpandOnePerDemand(self, ds) ==
  IF ds = << >> THEN << >>
  ELSE << Piece(ds[1].rect, EffectiveRotation(self, ds[1])) >>
       \o ExpandOnePerDemand(self, Tail(ds))

\* The loop of expand_demands: the pieces in demand order
RECURSIVE ExpandFrom(_, _)
ExpandFrom(self, ds) ==
  IF ds = << >> THEN << >>
  ELSE Copies(Piece(ds[1].rect, EffectiveRotation(self, ds[1])), ds[1].qty)
       \o ExpandFrom(self, Tail(ds))

\* Insert p behind every element whose area is at least p's
RECURSIVE InsertByArea(_, _)
InsertByArea(sorted, p) ==
  IF sorted = << >> THEN << p >>
  ELSE IF area(sorted[1].rect) >= area(p.rect)
       THEN << sorted[1] >> \o InsertByArea(Tail(sorted), p)
       ELSE << p >> \o sorted

\* slice::sort_by on descending area: a stable sort
RECURSIVE SortByAreaDesc(_)
SortByAreaDesc(ps) ==
  IF ps = << >> THEN << >>
  ELSE InsertByArea(SortByAreaDesc(SubSeq(ps, 1, Len(ps) - 1)), ps[Len(ps)])

\* Solver::expand_demands
expand_demands(self) == SortByAreaDesc(ExpandFrom(self, self.demands))

EmptyBins == [bins |-> << >>, ids |-> << >>]

\* A loop over the open bins that stops at the first bin taking the piece
RECURSIVE GreedyFirstFit(_, _, _, _, _, _)
GreedyFirstFit(bins, piece, rotation, strategy, bi, best) ==
  IF bi > Len(bins) THEN best
  ELSE LET scored == find_best(bins[bi], piece, rotation, strategy)
       IN IF IsSome(scored)
          THEN Some([bin |-> bi, score |-> Unwrap(scored).score])
          ELSE GreedyFirstFit(bins, piece, rotation, strategy, bi + 1, best)

\* The loop over the open bins in greedy_solve: Some(index of the best bin)
RECURSIVE GreedyBestBin(_, _, _, _, _, _)
GreedyBestBin(bins, piece, rotation, strategy, bi, best) ==
  IF bi > Len(bins) THEN best
  ELSE LET scored == find_best(bins[bi], piece, rotation, strategy)
           next == IF IsSome(scored)
                      /\ (IsNone(best) \/ ScoreLess(Unwrap(scored).score, Unwrap(best).score))
                   THEN Some([bin |-> bi, score |-> Unwrap(scored).score])
                   ELSE best
       IN GreedyBestBin(bins, piece, rotation, strategy, bi + 1, next)

\* One iteration of the loop over the pieces in greedy_solve, for piece
\* number pi: Some(bin list after it), or None when the expect panics
GreedyStep(self, bs, pieces, pi, strategy, direction) ==
  LET piece == pieces[pi].rect
      rotation == pieces[pi].rotation
      best == GreedyBestBin(bs.bins, piece, rotation, strategy, 1, None)
  IN IF IsSome(best)
     THEN LET bi == Unwrap(best).bin
              scored == Unwrap(find_best(bs.bins[bi], piece, rotation, strategy))
          IN Some([bins |-> [bs.bins EXCEPT ![bi] = place(bs.bins[bi], scored, piece)],
                   ids |-> [bs.ids EXCEPT ![bi] = Append(bs.ids[bi], pi)]])
     ELSE LET bin == NewBin(self.stock, self.kerf, direction)
              scored == find_best(bin, piece, rotation, strategy)
          IN IF IsNone(scored) THEN None
             ELSE Some([bins |-> Append(bs.bins, place(bin, Unwrap(scored), piece)),
                        ids |-> Append(bs.ids, << pi >>)])

RECURSIVE GreedyFrom(_, _, _, _, _, _)
GreedyFrom(self, bs, pieces, pi, strategy, direction) ==
  IF pi > Len(pieces) THEN Some(bs)
  ELSE LET r == GreedyStep(self, bs, pieces, pi, strategy, direction)
       IN IF IsNone(r) THEN None
          ELSE GreedyFrom(self, Unwrap(r), pieces, pi + 1, strategy, direction)

\* Solver::greedy_solve: Some(bin list), or None when it panics
greedy_solve(self, pieces, strategy, direction) ==
  GreedyFrom(self, EmptyBins, pieces, 1, strategy, direction)

\* Solver::bb_directions, and the same match in greedy_best
bb_directions(self) ==
  IF self.cut_direction = "Auto" THEN << "AlongLength", "AlongWidth" >>
  ELSE << self.cut_direction >>

\* The (direction, strategy) combinations in the order greedy_best runs them
Combinations(self) ==
  LET ds == bb_directions(self)
  IN [k \in 1..(3 * Len(ds)) |->
        [direction |-> ds[((k - 1) \div 3) + 1],
         strategy |-> ScoreStrategies[((k - 1) % 3) + 1]]]

\* The comparison of greedy_best: sol replaces best
GreedyImproves(best, sol) ==
  IsNone(best) \/ Len(sol.bins) < Len(Unwrap(best).bins)

RECURSIVE GreedyBestFrom(_, _, _, _)
GreedyBestFrom(self, pieces, k, best) ==
  IF k > Len(Combinations(self)) THEN best
  ELSE LET c == Combinations(self)[k]
           sol == greedy_solve(self, pieces, c.strategy, c.direction)
       IN IF IsNone(sol) THEN None
          ELSE GreedyBestFrom(self, pieces, k + 1,
                 IF GreedyImproves(best, Unwrap(sol)) THEN sol ELSE best)

\* Solver::greedy_best: Some(bin list of the best combination), None on panic
greedy_best(self, pieces) == GreedyBestFrom(self, pieces, 1, None)

\* Sum of the areas of pieces[from..], for the lengths of the model, whose
\* sums stay far below 2^64 (RemainingArea64 is the u64 sum at any width)
RECURSIVE RemainingArea(_, _)
RemainingArea(pieces, from) ==
  IF from > Len(pieces) THEN 0
  ELSE area(pieces[from].rect) + RemainingArea(pieces, from + 1)

\* A sum that takes the open bins to be full
NoFreeArea(bins) == 0

\* Sum of the areas of the free rects of all bins, for the lengths of the
\* model (OpenFreeArea64 is the u64 sum at any width)
RECURSIVE OpenFreeArea(_)
OpenFreeArea(bins) ==
  IF bins = << >> THEN 0
  ELSE SumAreas(bins[1].free_rects) + OpenFreeArea(Tail(bins))

\* The lower bound bb_recurse computes before it branches on piece idx, for
\* the lengths of the model (LowerBound64 is the computation in u64)
LowerBound(self, pieces, idx, bins) ==
  LET remaining_area == RemainingArea(pieces, idx)
      stock_area == area(self.stock)
      min_extra_bins == IF remaining_area > 0 THEN DivCeil(remaining_area, stock_area) ELSE 0
      open_free_area == OpenFreeArea(bins)
      needed == IF remaining_area > open_free_area
                THEN Len(bins) + DivCeil(remaining_area - open_free_area, stock_area)
                ELSE Len(bins)
  IN Max(needed, Len(bins) + SaturatingSub(min_extra_bins, Len(bins)))

\* The orientations bb_recurse tries in an existing bin
Orientations(piece, rotation) ==
  IF rotation = "Free" /\ piece.length # piece.width THEN << FALSE, TRUE >>
  ELSE IF rotation = "ForceRotate" THEN << TRUE >>
  ELSE << FALSE >>

\* The body of the loop over orientations in bb_recurse: Some(child bin
\* list) when the oriented piece fits in bin bi
BranchExisting(bs, pieces, idx, bi, rot) ==
  LET piece == pieces[idx].rect
      try_piece == IF rot THEN rotated(piece) ELSE piece
      scored == find_best(bs.bins[bi], try_piece, "NoRotate", "BestAreaFit")
  IN IF IsNone(scored) THEN None
     ELSE Some([bins |-> [bs.bins EXCEPT ![bi] = place(bs.bins[bi], Unwrap(scored), try_piece)],
                ids |-> [bs.ids EXCEPT ![bi] = Append(bs.ids[bi], idx)]])

\* The body of the loop over directions in bb_recurse: Some(child bin list)
\* when the piece fits in a new bin
BranchNew(self, bs, pieces, idx, dir) ==
  LET piece == pieces[idx].rect
      new_bin == NewBin(self.stock, self.kerf, dir)
      scored == find_best(new_bin, piece, pieces[idx].rotation, "BestAreaFit")
  IN IF IsNone(scored) THEN None
     ELSE Some([bins |-> Append(bs.bins, place(new_bin, Unwrap(scored), piece)),
                ids |-> Append(bs.ids, << idx >>)])

\* The (bin, orientation) pairs in the order the nested loops visit them
ExistingBranches(bs, pieces, idx) ==
  LET os == Orientations(pieces[idx].rect, pieces[idx].rotation)
      n == Len(os)
  IN [k \in 1..(Len(bs.bins) * n) |->
        [bi |-> ((k - 1) \div n) + 1, rot |-> os[((k - 1) % n) + 1]]]

\* (best_bins, best_count) of branch_and_bound
Best(bins, count) == [bins |-> bins, count |-> count]

RECURSIVE bb_recurse(_, _, _, _, _)
RECURSIVE BBExistingFrom(_, _, _, _, _, _)
RECURSIVE BBNewFrom(_, _, _, _, _, _)

\* The loop over existing bins and orientations, from branch number k
BBExistingFrom(self, pieces, idx, bs, k, best) ==
  LET brs == ExistingBranches(bs, pieces, idx)
  IN IF k > Len(brs) THEN best
     ELSE LET child == BranchExisting(bs, pieces, idx, brs[k].bi, brs[k].rot)
              b1 == IF IsSome(child)
                    THEN bb_recurse(self, pieces, idx + 1, Unwrap(child), best)
                    ELSE best
          IN BBExistingFrom(self, pieces, idx, bs, k + 1, b1)

\* The loop over the directions of a new bin, from direction number k
BBNewFrom(self, pieces, idx, bs, k, best) ==
  LET ds == bb_directions(self)
  IN IF k > Len(ds) THEN best
     ELSE LET child == BranchNew(self, bs, pieces, idx, ds[k])
              b1 == IF IsSome(child)
                    THEN bb_recurse(self, pieces, idx + 1, Unwrap(child), best)
                    ELSE best
          IN BBNewFrom(self, pieces, idx, bs, k + 1, b1)

\* Solver::bb_recurse; idx is the 1-based index of the next piece.  The
\* value is (best_bins, best_count) when the call returns.
bb_recurse(self, pieces, idx, bs, best) ==
  IF idx = Len(pieces) + 1
  THEN (IF Len(bs.bins) < best.count THEN Best(Some(bs), Len(bs.bins)) ELSE best)
  ELSE IF Len(bs.bins) >= best.count THEN best
  ELSE IF LowerBound(self, pieces, idx, bs.bins) >= best.count THEN best
  ELSE LET b1 == BBExistingFrom(self, pieces, idx, bs, 1, best)
       IN IF Len(bs.bins) + 1 < b1.count
          THEN BBNewFrom(self, pieces, idx, bs, 1, b1)
          ELSE b1

\* The piece count above which branch_and_bound does not search
BBGate == 20

\* Solver::branch_and_bound: Some(bin list) when a best was recorded; None
\* stands for the Solution with no sheets
branch_and_bound(self, pieces, upper_bound) ==
  IF Len(pieces) > BBGate THEN None
  ELSE bb_recurse(self, pieces, 1, EmptyBins, Best(None, upper_bound)).bins

\* Solver::bins_to_solution
bins_to_solution(self, bins) ==
  [sheets |-> [b \in 1..Len(bins) |->
                 [placements |-> bins[b].placements,
                  waste_area |-> area(self.stock) - used_area(bins[b])]],
   stock |-> self.stock]

\* Solution::sheet_count
sheet_count(sol) == Len(sol.sheets)

\* The comparison of solve turned round
PrefersBBFlipped(greedy, bb) ==
  IsSome(bb) /\ Len(Unwrap(bb).bins) # 0 /\ Len(Unwrap(bb).bins) > Len(greedy.bins)

\* The choice solve makes between the two phase results: TRUE for bb
PrefersBB(greedy, bb) ==
  IsSome(bb) /\ Len(Unwrap(bb).bins) # 0 /\ Len(Unwrap(bb).bins) < Len(greedy.bins)

\* Solver::solve with the history the model adds: panicked is TRUE when the
\* expect of greedy_solve fails; otherwise chosen is the bin list returned,
\* from tells the phase it comes from, greedy and bb are the phase results
SolveRun(self) ==
  LET pieces == expand_demands(self)
      g == greedy_best(self, pieces)
  IN IF pieces = << >>
     THEN [panicked |-> FALSE, from |-> "empty", chosen |-> EmptyBins,
           greedy |-> None, bb |-> None]
     ELSE IF IsNone(g)
     THEN [panicked |-> TRUE, from |-> "panic", chosen |-> EmptyBins,
           greedy |-> None, bb |-> None]
     ELSE LET bb == branch_and_bound(self, pieces, Len(Unwrap(g).bins))
          IN IF PrefersBB(Unwrap(g), bb)
             THEN [panicked |-> FALSE, from |-> "bb", chosen |-> Unwrap(bb),
                   greedy |-> g, bb |-> bb]
             ELSE [panicked |-> FALSE, from |-> "greedy", chosen |-> Unwrap(g),
                   greedy |-> g, bb |-> bb]

\* Solver::solve: Some(the Solution returned), or None when the expect of
\* greedy_solve panics ("piece larger than stock") and nothing is returned
solve(self) ==
  IF SolveRun(self).panicked THEN None
  ELSE Some(bins_to_solution(self, SolveRun(self).chosen.bins))

(***************************************************************************)
(* The state machine: one call of Solver::solve, step by step.             *)
(*   self     the Solver (the input of the call)                           *)
(*   pc       where the call is: "expand", "greedy", "bb", "choose",       *)
(*            "done" (solve returned) or "panicked" (the expect failed);   *)
(*            "compared" once the second machine has made all its calls   *)
(*   pieces   the expanded piece list                                      *)
(*   combo    greedy_best: number of the running combination               *)
(*   pi       greedy_solve: number of the next piece                       *)
(*   cur      greedy_solve: the bin list of the running pass               *)
(*   gbest    greedy_best: Option of the best bin list so far              *)
(*   stack    bb_recurse: the call stack, innermost call last              *)
(*   best     branch_and_bound: (best_bins, best_count)                    *)
(*   bbres    Option of the bin list branch_and_bound returns              *)
(*   result   the bin list behind the Solution solve returns               *)
(***************************************************************************)
VARIABLES self, pc, pieces, combo, pi, cur, gbest, stack, best, bbres, result

(***************************************************************************)
(* A second machine compares calls of solve whose inputs differ in kerf    *)
(* and allow_rotate only (SpecCompare below).                              *)
(*   cmp      the inputs of the calls to compare, and the outcome of each  *)
(*            call made so far: Some(sheet count), or None after a panic   *)
(***************************************************************************)
VARIABLE cmp

(***************************************************************************)
(* A third machine is the command-line front end, main of main.rs, which   *)
(* validates its arguments and then calls solve (SpecCli below).           *)
(*   cli      the parsed command line: stock, cuts, kerf, no_rotate and    *)
(*            cut_direction                                                *)
(* A fourth machine is one GuillotineBin on which pieces are placed one    *)
(* after the other (SpecBin below).                                        *)
(*   sheet    the GuillotineBin                                            *)
(* A fifth machine is the summary of a returned Solution (SpecWaste        *)
(* below).                                                                 *)
(*   waste    the Solution and the outcome of total_waste_percent on it    *)
(* A sixth machine, one call of split on u32 values (SpecSplit below),     *)
(* keeps the call and its outcome in sheet.                                *)
(***************************************************************************)
VARIABLES cli, sheet, waste

(***************************************************************************)
(* find_best and place are two public calls, and place checks nothing: the *)
(* code that uses a bin may keep a ScoredPlacement and pass it to place    *)
(* after the bin has changed.                                              *)
(*   caller   held: Option of the candidate the user of the bin keeps, the *)
(*            ScoredPlacement find_best returned and the piece it was      *)
(*            asked for; fresh: history added by the model, TRUE while     *)
(*            every call of place so far was given a candidate that        *)
(*            find_best returns for the piece on the bin as it was at the  *)
(*            call                                                         *)
(***************************************************************************)
VARIABLE caller

(***************************************************************************)
(* Rect::area is a u64 and bb_recurse adds areas up in u64.  To reach the  *)
(* width at which such a sum passes 2^64 - 1 a call of solve can be given  *)
(* in units: the lengths of its stock and of its demands are the lengths   *)
(* of the model times a unit, a u32.  With kerf 0 the bins of such a call  *)
(* are those of the model, each length times the unit.                     *)
(*   scale    the unit, as digits (see Digits); NoScale in the machines    *)
(*            whose lengths are the lengths of the model                   *)
(***************************************************************************)
VARIABLE scale

vars == << self, pc, pieces, combo, pi, cur, gbest, stack, best, bbres, result, cmp,
           cli, sheet, waste, caller, scale >>

(***************************************************************************)
(* The inputs.  As in both front ends (main.rs, server.rs) a request is a  *)
(* list of cuts (rect, qty, grain) and one allow_rotate flag that every    *)
(* Demand of the call carries.                                             *)
(***************************************************************************)
Dims(n) == { Rect(l, w) : l \in 1..n, w \in 1..n }

Cuts(maxDim, maxQty) ==
  { [rect |-> r, qty |-> q, grain |-> g] :
      r \in { d \in Dims(maxDim) : area(d) <= MaxPieceArea },
      q \in 1..maxQty, g \in PieceGrains }

RECURSIVE TotalQty(_)
TotalQty(ds) == IF ds = << >> THEN 0 ELSE ds[1].qty + TotalQty(Tail(ds))

CutLists(maxDim, maxQty, maxPieces) ==
  { cs \in UNION { [1..n -> Cuts(maxDim, maxQty)] : n \in 0..MaxDemands } :
      TotalQty(cs) <= maxPieces }

\* A stock without grain ignores the grain of the pieces: one grain stands
\* for all of them
GrainsMatter(stock_grain, cs) ==
  stock_grain = "None" => \A i \in DOMAIN cs : cs[i].grain = "Auto"

DemandsOf(cs, allow) ==
  [i \in DOMAIN cs |-> Demand(cs[i].rect, cs[i].qty, allow, cs[i].grain)]

NoCompare == [calls |-> << >>, counts |-> << >>]

\* The machines that are not running
NoSolver == << >>
NoCli == << >>
NoSheet == << >>
NoWaste == << >>
NoCaller == << >>
NoScale == << >>

Init ==
  /\ \E st \in Dims(MaxStockDim), k \in 0..MaxKerf, cd \in CutDirections,
        sg \in StockGrains, cs \in CutLists(MaxPieceDim, MaxQty, MaxPieces),
        a \in BOOLEAN :
       /\ GrainsMatter(sg, cs)
       /\ self = Solver(st, k, cd, sg, DemandsOf(cs, a))
  /\ pc = "expand"
  /\ pieces = << >>
  /\ combo = 1
  /\ pi = 1
  /\ cur = EmptyBins
  /\ gbest = None
  /\ stack = << >>
  /\ best = Best(None, 0)
  /\ bbres = None
  /\ result = EmptyBins
  /\ cmp = NoCompare
  /\ cli = NoCli
  /\ sheet = NoSheet
  /\ waste = NoWaste
  /\ caller = NoCaller
  /\ scale = NoScale

\* solve: expand_demands, and the early return when there are no pieces
Expand ==
  /\ pc = "expand"
  /\ pieces' = expand_demands(self)
  /\ pc' = IF pieces' = << >> THEN "done" ELSE "greedy"
  /\ UNCHANGED << scale, caller, waste, cli, sheet, cmp, self, combo, pi, cur, gbest, stack, best, bbres, result >>

\* greedy_solve: one iteration of the loop over the pieces
GreedyPlace ==
  /\ pc = "greedy"
  /\ pi <= Len(pieces)
  /\ LET c == Combinations(self)[combo]
         r == GreedyStep(self, cur, pieces, pi, c.strategy, c.direction)
     IN /\ IsSome(r)
        /\ cur' = Unwrap(r)
  /\ pi' = pi + 1
  /\ UNCHANGED << scale, caller, waste, cli, sheet, cmp, self, pc, pieces, combo, gbest, stack, best, bbres, result >>

\* greedy_solve: expect("piece larger than stock") fails
GreedyPanic ==
  /\ pc = "greedy"
  /\ pi <= Len(pieces)
  /\ LET c == Combinations(self)[combo]
     IN IsNone(GreedyStep(self, cur, pieces, pi, c.strategy, c.direction))
  /\ pc' = "panicked"
  /\ UNCHANGED << scale, caller, waste, cli, sheet, cmp, self, pieces, combo, pi, cur, gbest, stack, best, bbres, result >>

\* The end of a pass when branch_and_bound has no gate on the piece count
GreedyPassDoneNoGate ==
  /\ pc = "greedy"
  /\ pi > Len(pieces)
  /\ gbest' = IF GreedyImproves(gbest, cur) THEN Some(cur) ELSE gbest
  /\ IF combo < Len(Combinations(self))
     THEN /\ combo' = combo + 1
          /\ pi' = 1
          /\ cur' = EmptyBins
          /\ UNCHANGED << pc, stack, best >>
     ELSE /\ pc' = "bb"
          /\ stack' = << [idx |-> 1, bs |-> EmptyBins, stage |-> "enter", k |-> 1] >>
          /\ best' = Best(None, Len(Unwrap(gbest').bins))
          /\ UNCHANGED << combo, pi, cur >>
  /\ UNCHANGED << scale, caller, waste, cli, sheet, cmp, self, pieces, bbres, result >>

\* greedy_best: a pass returned; keep it if it has fewer sheets, then run the
\* next combination or, after the last one, call branch_and_bound
GreedyPassDone ==
  /\ pc = "greedy"
  /\ pi > Len(pieces)
  /\ gbest' = IF GreedyImproves(gbest, cur) THEN Some(cur) ELSE gbest
  /\ IF combo < Len(Combinations(self))
     THEN /\ combo' = combo + 1
          /\ pi' = 1
          /\ cur' = EmptyBins
          /\ UNCHANGED << pc, stack, best >>
     ELSE /\ pc' = "bb"
          /\ IF Len(pieces) > BBGate
             THEN /\ stack' = << >>
                  /\ best' = Best(None, Len(Unwrap(gbest').bins))
             ELSE /\ stack' = << [idx |-> 1, bs |-> EmptyBins, stage |-> "enter", k |-> 1] >>
                  /\ best' = Best(None, Len(Unwrap(gbest').bins))
          /\ UNCHANGED << combo, pi, cur >>
  /\ UNCHANGED << scale, caller, waste, cli, sheet, cmp, self, pieces, bbres, result >>

Top == stack[Len(stack)]
Pop == SubSeq(stack, 1, Len(stack) - 1)
Frame(idx, bs) == [idx |-> idx, bs |-> bs, stage |-> "enter", k |-> 1]

BBUnchanged == UNCHANGED << scale, caller, waste, cli, sheet, cmp, self, pc, pieces, combo, pi, cur, gbest, bbres, result >>

\* A leaf that is also recorded when it only equals best_count
BBLeafOnEqual ==
  /\ pc = "bb" /\ stack # << >>
  /\ Top.stage = "enter"
  /\ Top.idx = Len(pieces) + 1
  /\ best' = IF Len(Top.bs.bins) <= best.count
             THEN Best(Some(Top.bs), Len(Top.bs.bins)) ELSE best
  /\ stack' = Pop
  /\ BBUnchanged

\* bb_recurse at a leaf: record the bin list if it beats best_count, return
BBLeaf ==
  /\ pc = "bb" /\ stack # << >>
  /\ Top.stage = "enter"
  /\ Top.idx = Len(pieces) + 1
  /\ best' = IF Len(Top.bs.bins) < best.count
             THEN Best(Some(Top.bs), Len(Top.bs.bins)) ELSE best
  /\ stack' = Pop
  /\ BBUnchanged

\* bb_recurse: either pruning test returns
BBPrune ==
  /\ pc = "bb" /\ stack # << >>
  /\ Top.stage = "enter"
  /\ Top.idx <= Len(pieces)
  /\ \/ Len(Top.bs.bins) >= best.count
     \/ LowerBound(self, pieces, Top.idx, Top.bs.bins) >= best.count
  /\ stack' = Pop
  /\ UNCHANGED best
  /\ BBUnchanged

\* bb_recurse: not pruned, enter the loop over the existing bins
BBBranch ==
  /\ pc = "bb" /\ stack # << >>
  /\ Top.stage = "enter"
  /\ Top.idx <= Len(pieces)
  /\ Len(Top.bs.bins) < best.count
  /\ LowerBound(self, pieces, Top.idx, Top.bs.bins) < best.count
  /\ stack' = [stack EXCEPT ![Len(stack)].stage = "existing"]
  /\ UNCHANGED best
  /\ BBUnchanged

\* The loop body over the existing bins placing in the parent's own bin list
\* instead of a clone of it
BBTryExistingInPlace ==
  /\ pc = "bb" /\ stack # << >>
  /\ Top.stage = "existing"
  /\ Top.k <= Len(ExistingBranches(Top.bs, pieces, Top.idx))
  /\ LET br == ExistingBranches(Top.bs, pieces, Top.idx)[Top.k]
         child == BranchExisting(Top.bs, pieces, Top.idx, br.bi, br.rot)
         moved == [stack EXCEPT ![Len(stack)].k = Top.k + 1]
     IN stack' = IF IsSome(child)
                 THEN Append([moved EXCEPT ![Len(stack)].bs = Unwrap(child)],
                             Frame(Top.idx + 1, Unwrap(child)))
                 ELSE moved
  /\ UNCHANGED best
  /\ BBUnchanged

\* bb_recurse: one (bin, orientation) of the loop over the existing bins;
\* when the oriented piece fits, clone, place and recurse
BBTryExisting ==
  /\ pc = "bb" /\ stack # << >>
  /\ Top.stage = "existing"
  /\ Top.k <= Len(ExistingBranches(Top.bs, pieces, Top.idx))
  /\ LET br == ExistingBranches(Top.bs, pieces, Top.idx)[Top.k]
         child == BranchExisting(Top.bs, pieces, Top.idx, br.bi, br.rot)
         moved == [stack EXCEPT ![Len(stack)].k = Top.k + 1]
     IN stack' = IF IsSome(child)
                 THEN Append(moved, Frame(Top.idx + 1, Unwrap(child)))
                 ELSE moved
  /\ UNCHANGED best
  /\ BBUnchanged

\* bb_recurse: the loop over the existing bins is over; open new bins only
\* if that can still beat best_count, else return
BBExistingDone ==
  /\ pc = "bb" /\ stack # << >>
  /\ Top.stage = "existing"
  /\ Top.k > Len(ExistingBranches(Top.bs, pieces, Top.idx))
  /\ stack' = IF Len(Top.bs.bins) + 1 < best.count
              THEN [stack EXCEPT ![Len(stack)].stage = "new", ![Len(stack)].k = 1]
              ELSE Pop
  /\ UNCHANGED best
  /\ BBUnchanged

\* The loop body over the directions recursing without advancing idx
BBTryNewSameIndex ==
  /\ pc = "bb" /\ stack # << >>
  /\ Top.stage = "new"
  /\ Top.k <= Len(bb_directions(self))
  /\ LET child == BranchNew(self, Top.bs, pieces, Top.idx, bb_directions(self)[Top.k])
         moved == [stack EXCEPT ![Len(stack)].k = Top.k + 1]
     IN stack' = IF IsSome(child)
                 THEN Append(moved, Frame(Top.idx, Unwrap(child)))
                 ELSE moved
  /\ UNCHANGED best
  /\ BBUnchanged

\* bb_recurse: one direction of the loop that opens a new bin
BBTryNew ==
  /\ pc = "bb" /\ stack # << >>
  /\ Top.stage = "new"
  /\ Top.k <= Len(bb_directions(self))
  /\ LET child == BranchNew(self, Top.bs, pieces, Top.idx, bb_directions(self)[Top.k])
         moved == [stack EXCEPT ![Len(stack)].k = Top.k + 1]
     IN stack' = IF IsSome(child)
                 THEN Append(moved, Frame(Top.idx + 1, Unwrap(child)))
                 ELSE moved
  /\ UNCHANGED best
  /\ BBUnchanged

\* bb_recurse: the loop over the directions is over, return
BBNewDone ==
  /\ pc = "bb" /\ stack # << >>
  /\ Top.stage = "new"
  /\ Top.k > Len(bb_directions(self))
  /\ stack' = Pop
  /\ UNCHANGED best
  /\ BBUnchanged

\* branch_and_bound returns best_bins (or skipped the search)
BBReturn ==
  /\ pc = "bb" /\ stack = << >>
  /\ bbres' = best.bins
  /\ pc' = "choose"
  /\ UNCHANGED << scale, caller, waste, cli, sheet, cmp, self, pieces, combo, pi, cur, gbest, stack, best, result >>

\* solve: return bb if it is non-empty and has fewer sheets, else greedy
SolveReturn ==
  /\ pc = "choose"
  /\ result' = IF PrefersBB(Unwrap(gbest), bbres) THEN Unwrap(bbres) ELSE Unwrap(gbest)
  /\ pc' = "done"
  /\ UNCHANGED << scale, caller, waste, cli, sheet, cmp, self, pieces, combo, pi, cur, gbest, stack, best, bbres >>

Next ==
  \/ Expand
  \/ GreedyPlace
  \/ GreedyPanic
  \/ GreedyPassDone
  \/ BBLeaf
  \/ BBPrune
  \/ BBBranch
  \/ BBTryExisting
  \/ BBExistingDone
  \/ BBTryNew
  \/ BBNewDone
  \/ BBReturn
  \/ SolveReturn

Spec == Init /\ [][Next]_vars

\* The step machine computes what the recursive definitions compute
StepsAgree ==
  /\ pc = "done" => /\ ~SolveRun(self).panicked
                    /\ result = SolveRun(self).chosen
  /\ pc = "panicked" => SolveRun(self).panicked

(***************************************************************************)
(* expand_demands alone, on every combination of stock grain, piece grain, *)
(* allow_rotate, cut direction and piece shape.                            *)
(***************************************************************************)
InitExpand ==
  /\ \E st \in Dims(MaxStockDim), k \in 0..MaxKerf, cd \in CutDirections,
        sg \in StockGrains, cs \in CutLists(MaxPieceDim, MaxQty, MaxPieces),
        a \in BOOLEAN :
       self = Solver(st, k, cd, sg, DemandsOf(cs, a))
  /\ pc = "expand"
  /\ pieces = << >>
  /\ combo = 1
  /\ pi = 1
  /\ cur = EmptyBins
  /\ gbest = None
  /\ stack = << >>
  /\ best = Best(None, 0)
  /\ bbres = None
  /\ result = EmptyBins
  /\ cmp = NoCompare
  /\ cli = NoCli
  /\ sheet = NoSheet
  /\ waste = NoWaste
  /\ caller = NoCaller
  /\ scale = NoScale

NextExpand == Expand

SpecExpand == InitExpand /\ [][NextExpand]_vars

(***************************************************************************)
(* greedy_best alone: the passes of greedy_solve over every combination of *)
(* direction and strategy, on lists of single pieces.                      *)
(***************************************************************************)
GreedyMaxStock == 4
GreedyMaxPiece == 2
GreedyMaxPieces == 3

GreedyCutLists ==
  UNION { [1..n -> { [rect |-> r, qty |-> 1, grain |-> "Auto"] : r \in Dims(GreedyMaxPiece) }] :
            n \in 1..GreedyMaxPieces }

InitGreedy ==
  /\ \E st \in Dims(GreedyMaxStock), k \in 0..MaxKerf, cd \in CutDirections,
        cs \in GreedyCutLists, a \in BOOLEAN :
       self = Solver(st, k, cd, "None", DemandsOf(cs, a))
  /\ pc = "expand"
  /\ pieces = << >>
  /\ combo = 1
  /\ pi = 1
  /\ cur = EmptyBins
  /\ gbest = None
  /\ stack = << >>
  /\ best = Best(None, 0)
  /\ bbres = None
  /\ result = EmptyBins
  /\ cmp = NoCompare
  /\ cli = NoCli
  /\ sheet = NoSheet
  /\ waste = NoWaste
  /\ caller = NoCaller
  /\ scale = NoScale

NextGreedy == Expand \/ GreedyPlace \/ GreedyPanic \/ GreedyPassDone

SpecGreedy == InitGreedy /\ [][NextGreedy]_vars

(***************************************************************************)
(* solve on cut lists of up to five pieces on a long narrow stock: the     *)
(* inputs on which the search of bb_recurse reaches several leaves, some   *)
(* of them after a better one was already recorded.                        *)
(***************************************************************************)
SearchLong == 4
SearchNarrow == 2
SearchMaxQty == 3
SearchMaxPieces == 5

SearchStocks ==
  { Rect(SearchLong, w) : w \in 1..SearchNarrow } \cup
  { Rect(l, SearchLong) : l \in 1..SearchNarrow }

SearchCuts ==
  { [rect |-> r, qty |-> q, grain |-> "Auto"] :
      r \in Dims(SearchNarrow), q \in 1..SearchMaxQty }

SearchCutLists ==
  { cs \in UNION { [1..n -> SearchCuts] : n \in 1..MaxDemands } :
      TotalQty(cs) <= SearchMaxPieces }

InitSearch ==
  /\ \E st \in SearchStocks, k \in 0..MaxKerf, cd \in CutDirections,
        cs \in SearchCutLists, a \in BOOLEAN :
       self = Solver(st, k, cd, "None", DemandsOf(cs, a))
  /\ pc = "expand"
  /\ pieces = << >>
  /\ combo = 1
  /\ pi = 1
  /\ cur = EmptyBins
  /\ gbest = None
  /\ stack = << >>
  /\ best = Best(None, 0)
  /\ bbres = None
  /\ result = EmptyBins
  /\ cmp = NoCompare
  /\ cli = NoCli
  /\ sheet = NoSheet
  /\ waste = NoWaste
  /\ caller = NoCaller
  /\ scale = NoScale

SpecSearch == InitSearch /\ [][Next]_vars

(***************************************************************************)
(* solve on cut lists around the gate of branch_and_bound: the short cut   *)
(* lists of SpecSearch, and long ones of BBGate - 2 and more pieces that   *)
(* each fill a sheet (kerf 0), with an optional second demand of up to     *)
(* GateSecondQty smaller pieces.  On the long lists with at most BBGate    *)
(* pieces the lower bound of the search equals the greedy sheet count, so  *)
(* the search is entered and returns at once.                              *)
(***************************************************************************)
GateMaxSide == 2
GateOver == 1
GateSecondQty == 2

GateQtys == (BBGate - 2)..(BBGate + GateOver)

GateFill(st) ==
  { << [rect |-> st, qty |-> q, grain |-> "Auto"] >> : q \in GateQtys } \cup
  { << [rect |-> st, qty |-> q, grain |-> "Auto"],
       [rect |-> r2, qty |-> q2, grain |-> "Auto"] >> :
      q \in GateQtys, r2 \in Dims(GateMaxSide), q2 \in 1..GateSecondQty }

InitGate ==
  /\ \E cd \in CutDirections, a \in BOOLEAN :
       \/ \E st \in SearchStocks, k \in 0..MaxKerf, cs \in SearchCutLists :
            self = Solver(st, k, cd, "None", DemandsOf(cs, a))
       \/ \E st \in Dims(GateMaxSide) : \E cs \in GateFill(st) :
            self = Solver(st, 0, cd, "None", DemandsOf(cs, a))
  /\ pc = "expand"
  /\ pieces = << >>
  /\ combo = 1
  /\ pi = 1
  /\ cur = EmptyBins
  /\ gbest = None
  /\ stack = << >>
  /\ best = Best(None, 0)
  /\ bbres = None
  /\ result = EmptyBins
  /\ cmp = NoCompare
  /\ cli = NoCli
  /\ sheet = NoSheet
  /\ waste = NoWaste
  /\ caller = NoCaller
  /\ scale = NoScale

SpecGate == InitGate /\ [][Next]_vars

(***************************************************************************)
(* The comparing machine: solve is called on inputs that differ only in    *)
(* kerf and allow_rotate, one call after the other, for every kerf of the  *)
(* model and allow_rotate FALSE and TRUE on every demand.  Each call runs  *)
(* the steps of solve; when it returns its sheet count is recorded, when   *)
(* it panics None is recorded, and the next call starts.                   *)
(***************************************************************************)
CmpMaxStockLength == 4
CmpMaxStockWidth == 2

\* The validation of server.rs: the demand fits under its rotation constraint
DemandFits(slv, d) ==
  LET rotation == EffectiveRotation(slv, d)
  IN CASE rotation = "NoRotate" -> fits_in(d.rect, slv.stock)
       [] rotation = "ForceRotate" -> fits_in(rotated(d.rect), slv.stock)
       [] rotation = "Free" -> fits_in(d.rect, slv.stock) \/ fits_in(rotated(d.rect), slv.stock)

\* The precondition of solve (section 6)
ValidInput(slv) ==
  /\ slv.stock.length > 0 /\ slv.stock.width > 0
  /\ \A i \in DOMAIN slv.demands :
       /\ slv.demands[i].rect.length > 0 /\ slv.demands[i].rect.width > 0
       /\ slv.demands[i].qty > 0
       /\ DemandFits(slv, slv.demands[i])

\* The calls to compare: call 2k+1 has kerf k and allow_rotate FALSE, call
\* 2k+2 has kerf k and allow_rotate TRUE
Calls(st, cd, sg, cs) ==
  [i \in 1..(2 * (MaxKerf + 1)) |->
     [input |-> Solver(st, (i - 1) \div 2, cd, sg, DemandsOf(cs, (i - 1) % 2 = 1)),
      allow_rotate |-> ((i - 1) % 2 = 1)]]

InitCompare ==
  /\ \E l \in 1..CmpMaxStockLength, w \in 1..CmpMaxStockWidth, cd \in CutDirections,
        sg \in StockGrains, cs \in CutLists(MaxPieceDim, MaxQty, MaxPieces) :
       /\ GrainsMatter(sg, cs)
       /\ cmp = [calls |-> Calls(Rect(l, w), cd, sg, cs), counts |-> << >>]
  /\ self = cmp.calls[1].input
  /\ pc = "expand"
  /\ pieces = << >>
  /\ combo = 1
  /\ pi = 1
  /\ cur = EmptyBins
  /\ gbest = None
  /\ stack = << >>
  /\ best = Best(None, 0)
  /\ bbres = None
  /\ result = EmptyBins
  /\ cli = NoCli
  /\ sheet = NoSheet
  /\ waste = NoWaste
  /\ caller = NoCaller
  /\ scale = NoScale

\* The outcome of the call that has just ended
Outcome ==
  IF pc = "done" THEN Some(sheet_count(bins_to_solution(self, result.bins))) ELSE None

\* A call has ended and more remain: its outcome is recorded and solve is
\* called on the next input
NextCall ==
  /\ pc \in {"done", "panicked"}
  /\ Len(cmp.counts) + 1 < Len(cmp.calls)
  /\ cmp' = [cmp EXCEPT !.counts = Append(cmp.counts, Outcome)]
  /\ self' = cmp.calls[Len(cmp.counts) + 2].input
  /\ pc' = "expand"
  /\ pieces' = << >>
  /\ combo' = 1
  /\ pi' = 1
  /\ cur' = EmptyBins
  /\ gbest' = None
  /\ stack' = << >>
  /\ best' = Best(None, 0)
  /\ bbres' = None
  /\ result' = EmptyBins
  /\ UNCHANGED << scale, caller, waste, cli, sheet >>

\* The last call has ended: its outcome is recorded
Compared ==
  /\ pc \in {"done", "panicked"}
  /\ Len(cmp.counts) + 1 = Len(cmp.calls)
  /\ cmp' = [cmp EXCEPT !.counts = Append(cmp.counts, Outcome)]
  /\ pc' = "compared"
  /\ UNCHANGED << scale, caller, waste, cli, sheet, self, pieces, combo, pi, cur, gbest, stack, best, bbres, result >>

NextCompare == Next \/ NextCall \/ Compared

SpecCompare == InitCompare /\ [][NextCompare]_vars

(***************************************************************************)
(* The command-line front end, main of main.rs.  The arguments are taken   *)
(* after clap has read them: --stock and each --cuts value as the numbers  *)
(* their text holds, --kerf, --no-rotate and --cut-direction.  main parses *)
(* the stock and the cuts, checks that every piece fits in the stock, and  *)
(* calls solve with StockGrain::None; a parse or validation error ends the *)
(* process with exit code 1.                                               *)
(***************************************************************************)
CliMaxStock == 4
CliPieceArea == 4
CliMaxPieces == 4

\* parse_dimensions: a rectangle, or an error when a side is zero
parse_dimensions(d) ==
  IF d.length = 0 \/ d.width = 0 THEN None ELSE Some(Rect(d.length, d.width))

\* parse_cut: a Demand with grain Auto, or an error when a side or the
\* quantity is zero
parse_cut(c, allow_rotate) ==
  IF IsNone(parse_dimensions(c)) \/ c.qty = 0
  THEN None
  ELSE Some(Demand(Unwrap(parse_dimensions(c)), c.qty, allow_rotate, "Auto"))

\* main: the stock and the demands parse
CliParses(args) ==
  /\ IsSome(parse_dimensions(args.stock))
  /\ \A i \in DOMAIN args.cuts : IsSome(parse_cut(args.cuts[i], ~args.no_rotate))

CliStock(args) == Unwrap(parse_dimensions(args.stock))

CliDemands(args) ==
  [i \in DOMAIN args.cuts |-> Unwrap(parse_cut(args.cuts[i], ~args.no_rotate))]

\* main: the check made on one demand before solve is called
CliFits(stock, d) ==
  LET fits_normal == fits_in(d.rect, stock)
      fits_rotated == d.allow_rotate /\ fits_in(rotated(d.rect), stock)
  IN fits_normal \/ fits_rotated

\* The values of one --cuts argument: sides and quantity, zero included
CliCuts ==
  { [length |-> r.length, width |-> r.width, qty |-> q] :
      r \in { d \in Dims(CliMaxStock) : area(d) = CliPieceArea }, q \in 1..MaxQty }
  \cup { c \in [length : 0..1, width : 0..1, qty : 0..1] :
           c.length = 0 \/ c.width = 0 \/ c.qty = 0 }

CliCutLists ==
  { cs \in UNION { [1..n -> CliCuts] : n \in 0..MaxDemands } :
      TotalQty(cs) <= CliMaxPieces }

InitCli ==
  /\ \E l \in 0..CliMaxStock, w \in 0..CliMaxStock, k \in 0..MaxKerf,
        cd \in CutDirections, nr \in BOOLEAN, cs \in CliCutLists :
       cli = [stock |-> [length |-> l, width |-> w], cuts |-> cs, kerf |-> k,
              no_rotate |-> nr, cut_direction |-> cd]
  /\ self = NoSolver
  /\ pc = "main"
  /\ pieces = << >>
  /\ combo = 1
  /\ pi = 1
  /\ cur = EmptyBins
  /\ gbest = None
  /\ stack = << >>
  /\ best = Best(None, 0)
  /\ bbres = None
  /\ result = EmptyBins
  /\ cmp = NoCompare
  /\ sheet = NoSheet
  /\ waste = NoWaste
  /\ caller = NoCaller
  /\ scale = NoScale

CliUnchanged ==
  UNCHANGED << scale, caller, waste, cli, sheet, cmp, pieces, combo, pi, cur, gbest, stack, best, bbres, result >>

\* main: the stock or a cut does not parse
CliParseError ==
  /\ pc = "main"
  /\ ~CliParses(cli)
  /\ pc' = "exit1"
  /\ UNCHANGED self
  /\ CliUnchanged

\* main: a piece does not fit in the stock
CliReject ==
  /\ pc = "main"
  /\ CliParses(cli)
  /\ \E i \in DOMAIN cli.cuts : ~CliFits(CliStock(cli), CliDemands(cli)[i])
  /\ pc' = "exit1"
  /\ UNCHANGED self
  /\ CliUnchanged

\* main: every piece fits, Solver::new and the call of solve
CliSolve ==
  /\ pc = "main"
  /\ CliParses(cli)
  /\ \A i \in DOMAIN cli.cuts : CliFits(CliStock(cli), CliDemands(cli)[i])
  /\ self' = Solver(CliStock(cli), cli.kerf, cli.cut_direction, "None", CliDemands(cli))
  /\ pc' = "expand"
  /\ CliUnchanged

\* main: solve has returned, the sheets and the summary are printed
CliExit0 ==
  /\ cli # NoCli
  /\ pc = "done"
  /\ pc' = "exit0"
  /\ UNCHANGED self
  /\ CliUnchanged

NextCli == CliParseError \/ CliReject \/ CliSolve \/ Next \/ CliExit0

SpecCli == InitCli /\ [][NextCli]_vars

(***************************************************************************)
(* One GuillotineBin on which pieces are placed one after the other, as    *)
(* the solver does: find_best is called with a piece, a rotation           *)
(* constraint and a strategy, and when it returns a candidate place is     *)
(* called with it.  The bin may have any of the three cut directions.      *)
(* find_best and place are separate calls: the user of the bin may also    *)
(* keep the candidate, place other pieces, and call place with it later;   *)
(* place takes the candidate as it is and reads the free rect at its       *)
(* index.                                                                  *)
(***************************************************************************)
BinMaxStock == 3

\* The pieces offered to the bin
BinPieces == Dims(BinMaxStock)

\* The strategies find_best may be called with
BinStrategies == { ScoreStrategies[i] : i \in DOMAIN ScoreStrategies }

\* What the user of a bin keeps
Held(scored, piece) == [scored |-> scored, piece |-> piece]
Caller(held, fresh) == [held |-> held, fresh |-> fresh]

\* The bins whose users keep a candidate, and the number of placements up
\* to which a bin is followed once a stale candidate has been placed
HeldMaxStock == 2
HeldMaxPlaced == 4

HeldStocks == Dims(HeldMaxStock)

\* The candidate is one that find_best returns for its piece on the bin
IsFresh(bin, held) ==
  \E rotation \in RotationConstraints, strategy \in BinStrategies :
    find_best(bin, held.piece, rotation, strategy) = Some(held.scored)

InitBin ==
  /\ \E st \in Dims(BinMaxStock), k \in 0..MaxKerf, cd \in CutDirections :
       sheet = NewBin(st, k, cd)
  /\ caller = Caller(None, TRUE)
  /\ scale = NoScale
  /\ self = NoSolver
  /\ pc = "bin"
  /\ pieces = << >>
  /\ combo = 1
  /\ pi = 1
  /\ cur = EmptyBins
  /\ gbest = None
  /\ stack = << >>
  /\ best = Best(None, 0)
  /\ bbres = None
  /\ result = EmptyBins
  /\ cmp = NoCompare
  /\ cli = NoCli
  /\ waste = NoWaste

\* find_best returns a candidate and place is called with it
BinPlace ==
  /\ pc = "bin"
  /\ caller.fresh \/ Len(sheet.placements) < HeldMaxPlaced
  /\ \E piece \in BinPieces, rotation \in RotationConstraints,
        strategy \in BinStrategies :
       LET scored == find_best(sheet, piece, rotation, strategy)
       IN /\ IsSome(scored)
          /\ sheet' = place(sheet, Unwrap(scored), piece)
  /\ UNCHANGED << scale, caller, waste, cli, cmp, self, pc, pieces, combo, pi, cur, gbest, stack, best,
                  bbres, result >>

\* find_best returns a candidate and the user keeps it
BinFind ==
  /\ pc = "bin"
  /\ sheet.stock \in HeldStocks
  /\ \E piece \in BinPieces, rotation \in RotationConstraints,
        strategy \in BinStrategies :
       LET scored == find_best(sheet, piece, rotation, strategy)
       IN /\ IsSome(scored)
          /\ caller' = [caller EXCEPT !.held = Some(Held(Unwrap(scored), piece))]
  /\ UNCHANGED << scale, sheet, waste, cli, cmp, self, pc, pieces, combo, pi, cur, gbest, stack, best,
                  bbres, result >>

\* place is called with the candidate the user kept: free_rects[free_idx]
\* panics when the index is past the end of the list
BinPlaceHeld ==
  /\ pc = "bin"
  /\ IsSome(caller.held)
  /\ caller.fresh \/ Len(sheet.placements) < HeldMaxPlaced
  /\ LET held == Unwrap(caller.held)
     IN IF held.scored.free_idx > Len(sheet.free_rects)
        THEN /\ pc' = "panicked"
             /\ UNCHANGED << sheet, caller >>
        ELSE /\ sheet' = place(sheet, held.scored, held.piece)
             /\ caller' = [caller EXCEPT !.fresh = caller.fresh /\ IsFresh(sheet, held)]
             /\ UNCHANGED pc
  /\ UNCHANGED << scale, waste, cli, cmp, self, pieces, combo, pi, cur, gbest, stack, best, bbres,
                  result >>

NextBin == BinPlace \/ BinFind \/ BinPlaceHeld

SpecBin == InitBin /\ [][NextBin]_vars

(***************************************************************************)
(* Termination.  solve is sequential code: a step that can be taken is     *)
(* taken, which is weak fairness of Next.  The runs are those of solve on  *)
(* two demands of strips across and along a stock of twice their length,   *)
(* cut with the widest kerf, and, for the merge loop of place, those of    *)
(* one bin, a little longer than a strip, under any calls.                 *)
(***************************************************************************)
LiveSide == 2
LiveFirstQty == 2
LiveMaxQty == 3

LiveCutLists ==
  { << [rect |-> Rect(1, LiveSide), qty |-> q1, grain |-> "Auto"],
       [rect |-> Rect(LiveSide, 1), qty |-> q2, grain |-> "Auto"] >> :
      q1 \in 1..LiveFirstQty, q2 \in 1..LiveMaxQty }

LiveBinStocks == { Rect(LiveSide + 1, LiveSide), Rect(LiveSide, LiveSide + 1) }

InitLive ==
  /\ \/ /\ \E w \in 1..LiveSide, cs \in LiveCutLists :
             self = Solver(Rect(2 * LiveSide, w), MaxKerf, "Auto", "None",
                           DemandsOf(cs, FALSE))
        /\ pc = "expand"
        /\ sheet = NoSheet
        /\ caller = NoCaller
        /\ scale = NoScale
     \/ /\ \E st \in LiveBinStocks, k \in 0..MaxKerf, cd \in CutDirections :
             sheet = NewBin(st, k, cd)
        /\ pc = "bin"
        /\ self = NoSolver
        /\ caller = Caller(None, TRUE)
        /\ scale = NoScale
  /\ pieces = << >>
  /\ combo = 1
  /\ pi = 1
  /\ cur = EmptyBins
  /\ gbest = None
  /\ stack = << >>
  /\ best = Best(None, 0)
  /\ bbres = None
  /\ result = EmptyBins
  /\ cmp = NoCompare
  /\ cli = NoCli
  /\ waste = NoWaste

NextLive == Next \/ BinPlace

SpecLive == InitLive /\ [][NextLive]_vars /\ WF_vars(Next)

(***************************************************************************)
(* Sheets.  A sheet is a GuillotineBin: one that a run of solve builds and *)
(* returns in its Solution, or one that is used directly, under any calls  *)
(* of find_best and place.  The runs are those of Spec and those of        *)
(* SpecBin together.  solve only builds bins that cut AlongLength or       *)
(* AlongWidth (greedy_best and bb_directions replace Auto by the two), so  *)
(* the free rects of its bins merge along one axis only; a bin used        *)
(* directly may be Auto.                                                   *)
(***************************************************************************)
InitSheets == Init \/ InitBin

NextSheets == Next \/ NextBin

SpecSheets == InitSheets /\ [][NextSheets]_vars

(***************************************************************************)
(* The summary of a Solution.  total_waste_percent computes in u64 and in  *)
(* f64, which are modelled at full width.  A natural number is the         *)
(* sequence of its digits in base 2^15, least significant first, without   *)
(* leading zeros; zero is the empty sequence.  An f64 that is finite and   *)
(* not negative is a mantissa m and an exponent e, standing for m * 2^e,   *)
(* with m = 0 or 2^52 <= m < 2^53.                                         *)
(***************************************************************************)
DigitBits == 15
Base == 2 ^ DigitBits

RECURSIVE Digits(_)
Digits(n) == IF n = 0 THEN << >> ELSE << n % Base >> \o Digits(n \div Base)

RECURSIVE Norm(_)
Norm(a) ==
  IF a = << >> THEN << >>
  ELSE IF a[Len(a)] = 0 THEN Norm(SubSeq(a, 1, Len(a) - 1)) ELSE a

Digit(a, i) == IF i <= Len(a) THEN a[i] ELSE 0

RECURSIVE AddFrom(_, _, _, _)
AddFrom(a, b, i, carry) ==
  IF i > Len(a) /\ i > Len(b)
  THEN (IF carry = 0 THEN << >> ELSE << carry >>)
  ELSE LET s == Digit(a, i) + Digit(b, i) + carry
       IN << s % Base >> \o AddFrom(a, b, i + 1, s \div Base)

Add(a, b) == AddFrom(a, b, 1, 0)

\* a - b for a >= b
RECURSIVE SubFrom(_, _, _, _)
SubFrom(a, b, i, borrow) ==
  IF i > Len(a) THEN << >>
  ELSE LET d == a[i] - Digit(b, i) - borrow
       IN << d % Base >> \o SubFrom(a, b, i + 1, IF d < 0 THEN 1 ELSE 0)

Sub(a, b) == Norm(SubFrom(a, b, 1, 0))

Less(a, b) ==
  IF Len(a) # Len(b) THEN Len(a) < Len(b)
  ELSE \E i \in 1..Len(a) :
         a[i] < b[i] /\ \A j \in (i + 1)..Len(a) : a[j] = b[j]

\* a * d for a digit d
RECURSIVE MulDigitFrom(_, _, _, _)
MulDigitFrom(a, d, i, carry) ==
  IF i > Len(a)
  THEN (IF carry = 0 THEN << >> ELSE << carry >>)
  ELSE LET p == a[i] * d + carry
       IN << p % Base >> \o MulDigitFrom(a, d, i + 1, p \div Base)

RECURSIVE Mul(_, _)
Mul(a, b) ==
  IF a = << >> \/ b = << >> THEN << >>
  ELSE Norm(Add(MulDigitFrom(a, b[1], 1, 0), << 0 >> \o Mul(a, Tail(b))))

\* 2^k
Pow2(k) ==
  [i \in 1..(k \div DigitBits + 1) |->
     IF i = k \div DigitBits + 1 THEN 2 ^ (k % DigitBits) ELSE 0]

\* The number of binary digits of a
SmallBitLen(n) == Cardinality({k \in 0..(DigitBits - 1) : 2 ^ k <= n})

BitLen(a) ==
  IF a = << >> THEN 0 ELSE DigitBits * (Len(a) - 1) + SmallBitLen(a[Len(a)])

\* Binary digit i of a, counted from 0
Bit(a, i) == (Digit(a, i \div DigitBits + 1) \div (2 ^ (i % DigitBits))) % 2

\* floor(a / 2^d)
ShiftR(a, d) ==
  LET w == d \div DigitBits
      s == d % DigitBits
  IN Norm([j \in 1..(Len(a) - w) |->
             Digit(a, j + w) \div (2 ^ s)
               + (Digit(a, j + w + 1) % (2 ^ s)) * 2 ^ (DigitBits - s)])

\* The quotient digit and the remainder of rem * Base by b, for rem < b and
\* the leading digit of b at least Base / 2: the quotient of the two leading
\* digits by the leading digit of b overestimates the digit by at most 2
DivDigit(rem, b) ==
  LET n == Len(b)
      R == IF rem = << >> THEN << >> ELSE << 0 >> \o rem
      est == (Digit(R, n + 1) * Base + Digit(R, n)) \div b[n]
      top == IF est > Base - 1 THEN Base - 1 ELSE est
      q == CHOOSE d \in {top - 2, top - 1, top} :
             /\ d >= 0
             /\ ~Less(R, Norm(MulDigitFrom(b, d, 1, 0)))
             /\ (d = top \/ Less(R, Norm(MulDigitFrom(b, d + 1, 1, 0))))
  IN [q |-> q, r |-> Sub(R, Norm(MulDigitFrom(b, q, 1, 0)))]

\* The quotient of rem * Base^n by b as n digits, and the remainder
RECURSIVE DivDigits(_, _, _)
DivDigits(rem, b, n) ==
  IF n = 0 \/ rem = << >> THEN [q |-> [i \in 1..n |-> 0], r |-> rem]
  ELSE LET head == DivDigit(rem, b)
           rest == DivDigits(head.r, b, n - 1)
       IN [q |-> rest.q \o << head.q >>, r |-> rest.r]

\* u64: the value modulo 2^64, and whether the value is not a u64
U64Bits == 64
OverflowsU64(a) == BitLen(a) > U64Bits
WrapU64(a) == IF OverflowsU64(a) THEN Sub(a, Mul(ShiftR(a, U64Bits), Pow2(U64Bits))) ELSE a

\* f64: a finite value >= 0 is m * 2^e with m = 0 or 2^52 <= m < 2^53
F64Mantissa == 53
F64Of(m, e) == [m |-> m, e |-> e]
F64Zero == F64Of(<< >>, 0)

\* Round n * 2^e, plus something in (0, 2^e) when sticky, to the nearest
\* f64, ties to even
RoundF64(n, e, sticky) ==
  IF n = << >> THEN F64Zero
  ELSE IF BitLen(n) <= F64Mantissa
  THEN F64Of(Mul(n, Pow2(F64Mantissa - BitLen(n))), e - (F64Mantissa - BitLen(n)))
  ELSE LET d == BitLen(n) - F64Mantissa
           kept == ShiftR(n, d)
           guard == Bit(n, d - 1)
           rest == sticky \/ \E i \in 0..(d - 2) : Bit(n, i) = 1
           up == guard = 1 /\ (rest \/ Bit(kept, 0) = 1)
           r == IF up THEN Add(kept, Digits(1)) ELSE kept
       IN IF BitLen(r) > F64Mantissa
          THEN F64Of(ShiftR(r, 1), e + d + 1)
          ELSE F64Of(r, e + d)

\* u64 as f64
U64ToF64(n) == RoundF64(n, 0, FALSE)

\* f64 / f64, b # 0: the quotient of the mantissas to FracDigits digits
\* after the point, rounded with the remainder as the sticky bit
FracDigits == 4
F64Div(a, b) ==
  IF a.m = << >> THEN F64Zero
  ELSE LET norm == Pow2(DigitBits * Len(b.m) - BitLen(b.m))
           am == Mul(a.m, norm)
           bm == Mul(b.m, norm)
           whole == ~Less(am, bm)
           frac == DivDigits(IF whole THEN Sub(am, bm) ELSE am, bm, FracDigits)
           q == Norm(frac.q \o (IF whole THEN << 1 >> ELSE << >>))
       IN RoundF64(q, a.e - b.e - FracDigits * DigitBits, frac.r # << >>)

\* f64 * f64
F64Mul(a, b) == RoundF64(Mul(a.m, b.m), a.e + b.e, FALSE)

\* a < b
F64Less(a, b) ==
  IF b.m = << >> THEN FALSE
  ELSE IF a.m = << >> THEN TRUE
  ELSE IF a.e >= b.e THEN Less(Mul(a.m, Pow2(a.e - b.e)), b.m)
  ELSE Less(a.m, Mul(b.m, Pow2(b.e - a.e)))

F64Hundred == U64ToF64(Digits(100))

\* A u64 result: None when the overflow checks of the build panic on it
\* (a debug build), else the value modulo 2^64 (a release build)
U64Result(v, checked) ==
  IF OverflowsU64(v) THEN (IF checked THEN None ELSE Some(WrapU64(v))) ELSE Some(v)

\* a - b in u64
U64Minus(a, b, checked) ==
  IF Less(a, b)
  THEN (IF checked THEN None ELSE Some(Sub(Add(a, Pow2(U64Bits)), b)))
  ELSE Some(Sub(a, b))

\* Rect::area: self.length as u64 * self.width as u64
Area64(r) == Mul(Digits(r.length), Digits(r.width))

\* The sum of the areas of the placements of a list of sheets
RECURSIVE PlacedArea(_)
PlacedArea(placements) ==
  IF placements = << >> THEN << >>
  ELSE Add(Area64(placements[1].rect), PlacedArea(Tail(placements)))

RECURSIVE AllPlacements(_)
AllPlacements(sheets) ==
  IF sheets = << >> THEN << >>
  ELSE sheets[1].placements \o AllPlacements(Tail(sheets))

\* Solution::total_waste_percent: Some(f64), or None when it panics
total_waste_percent(sol, checked) ==
  LET stock_area == Area64(sol.stock)
      total_stock_area == U64Result(Mul(stock_area, Digits(Len(sol.sheets))), checked)
      total_used == U64Result(PlacedArea(AllPlacements(sol.sheets)), checked)
  IN IF total_stock_area = None \/ total_used = None THEN None
     ELSE IF Unwrap(total_stock_area) = << >> THEN Some(F64Zero)
     ELSE LET left == U64Minus(Unwrap(total_stock_area), Unwrap(total_used), checked)
          IN IF left = None THEN None
             ELSE Some(F64Mul(F64Div(U64ToF64(Unwrap(left)),
                                     U64ToF64(Unwrap(total_stock_area))),
                              F64Hundred))

(***************************************************************************)
(* The Solutions the summary is computed on are those solve returns for    *)
(* one demand without rotation and without kerf: qty sheets that hold one  *)
(* piece each at the origin, where qty is 0 or 1, or the piece is longer   *)
(* and wider than half the stock so that no sheet takes two.               *)
(***************************************************************************)
WasteSmall == 3
WasteBigExp == 27
WasteMaxSheets == 2

WasteSides == (1..WasteSmall) \cup {2 ^ (WasteBigExp - 1), 2 ^ WasteBigExp}

OnePerSheet(stock, piece) ==
  /\ piece.length + piece.length > stock.length
  /\ piece.width + piece.width > stock.width

SolutionOf(stock, piece, qty) ==
  [sheets |-> [b \in 1..qty |->
                 [placements |-> << Placement(piece, 0, 0, FALSE) >>,
                  waste_area |-> Sub(Area64(stock), Area64(piece))]],
   stock |-> stock]

InitWaste ==
  /\ \E sl \in WasteSides, sw \in WasteSides, l \in WasteSides, w \in WasteSides,
        qty \in 0..WasteMaxSheets :
       /\ l <= sl
       /\ w <= sw
       /\ qty <= 1 \/ OnePerSheet(Rect(sl, sw), Rect(l, w))
       /\ waste = [solution |-> SolutionOf(Rect(sl, sw), Rect(l, w), qty),
                   percent |-> None]
  /\ self = NoSolver
  /\ pc = "returned"
  /\ pieces = << >>
  /\ combo = 1
  /\ pi = 1
  /\ cur = EmptyBins
  /\ gbest = None
  /\ stack = << >>
  /\ best = Best(None, 0)
  /\ bbres = None
  /\ result = EmptyBins
  /\ cmp = NoCompare
  /\ cli = NoCli
  /\ sheet = NoSheet
  /\ caller = NoCaller
  /\ scale = NoScale

\* The caller of solve asks the Solution for its waste percentage
WastePercent ==
  /\ pc = "returned"
  /\ \E checked \in BOOLEAN :
       waste' = [waste EXCEPT !.percent = total_waste_percent(waste.solution, checked)]
  /\ pc' = IF waste'.percent = None THEN "panicked" ELSE "summed"
  /\ UNCHANGED << scale, caller, cli, sheet, cmp, self, pieces, combo, pi, cur, gbest, stack, best,
                  bbres, result >>

NextWaste == WastePercent

SpecWaste == InitWaste /\ [][NextWaste]_vars

(***************************************************************************)
(* split at the full width of u32.  The lengths, the coordinates and the   *)
(* kerf of a GuillotineBin are u32; each is a digit sequence here, so that *)
(* placed.length + self.kerf can pass 2^32 - 1.  An addition that passes   *)
(* it panics in a build with overflow checks and wraps in a build without. *)
(* A sixth machine is one call of split (SpecSplit below): sheet holds the *)
(* kerf and the cut direction of the bin, the free rect and the placed     *)
(* rect passed to split, and the free rects split pushed.                  *)
(***************************************************************************)
U32Bits == 32
OverflowsU32(a) == BitLen(a) > U32Bits
WrapU32(a) == IF OverflowsU32(a) THEN Sub(a, Mul(ShiftR(a, U32Bits), Pow2(U32Bits))) ELSE a
MaxU32 == Sub(Pow2(U32Bits), Digits(1))

\* a + b in u32: None when the overflow checks of the build panic on it
U32Add(a, b, checked) ==
  IF OverflowsU32(Add(a, b))
  THEN (IF checked THEN None ELSE Some(WrapU32(Add(a, b))))
  ELSE Some(Add(a, b))

\* a - b in u32
U32Minus(a, b, checked) ==
  IF Less(a, b)
  THEN (IF checked THEN None ELSE Some(Sub(Add(a, Pow2(U32Bits)), b)))
  ELSE Some(Sub(a, b))

\* a + b + c in u32, added from the left
U32Add3(a, b, c, checked) ==
  IF IsNone(U32Add(a, b, checked)) THEN None
  ELSE U32Add(Unwrap(U32Add(a, b, checked)), c, checked)

\* u32::saturating_sub
SaturatingSub32(a, b) == IF Less(a, b) THEN << >> ELSE Sub(a, b)

WideRect(length, width) == [length |-> length, width |-> width]
WideFree(x, y, rect) == [x |-> x, y |-> y, rect |-> rect]

\* GuillotineBin::split on u32 values: Some(the free rects pushed, in
\* order), or None when an addition or subtraction panics
Split32(kerf, cut_direction, free, placed, checked) ==
  LET sum_l == U32Add(placed.length, kerf, checked)
      sum_w == U32Add(placed.width, kerf, checked)
  IN IF IsNone(sum_l) \/ IsNone(sum_w) THEN None
     ELSE
       LET right_l == SaturatingSub32(free.rect.length, Unwrap(sum_l))
           bottom_w == SaturatingSub32(free.rect.width, Unwrap(sum_w))
           rest_l == U32Minus(free.rect.length, placed.length, checked)
           rest_w == U32Minus(free.rect.width, placed.width, checked)
           right_x == U32Add3(free.x, placed.length, kerf, checked)
           bottom_y == U32Add3(free.y, placed.width, kerf, checked)
       IN IF right_l # << >> /\ bottom_w # << >>
          THEN IF cut_direction = "Auto" /\ (IsNone(rest_l) \/ IsNone(rest_w)) THEN None
               ELSE IF IsNone(right_x) \/ IsNone(bottom_y) THEN None
               ELSE
                 LET split_horizontally ==
                       CASE cut_direction = "Auto" -> Less(Unwrap(rest_l), Unwrap(rest_w))
                         [] cut_direction = "AlongLength" -> TRUE
                         [] cut_direction = "AlongWidth" -> FALSE
                 IN IF split_horizontally
                    THEN Some(<< WideFree(Unwrap(right_x), free.y,
                                          WideRect(right_l, placed.width)),
                                 WideFree(free.x, Unwrap(bottom_y),
                                          WideRect(free.rect.length, bottom_w)) >>)
                    ELSE Some(<< WideFree(Unwrap(right_x), free.y,
                                          WideRect(right_l, free.rect.width)),
                                 WideFree(free.x, Unwrap(bottom_y),
                                          WideRect(placed.length, bottom_w)) >>)
          ELSE IF right_l # << >>
          THEN IF IsNone(right_x) THEN None
               ELSE Some(<< WideFree(Unwrap(right_x), free.y,
                                     WideRect(right_l, free.rect.width)) >>)
          ELSE IF bottom_w # << >>
          THEN IF IsNone(bottom_y) THEN None
               ELSE Some(<< WideFree(free.x, Unwrap(bottom_y),
                                     WideRect(free.rect.length, bottom_w)) >>)
          ELSE Some(<< >>)

\* The calls: sides and origins up to SplitSmall and the largest u32 side,
\* kerfs up to SplitSmall and down from 2^32 - 1; the placed rect fits in
\* the free rect, and the free rect ends at or before 2^32 - 1
SplitSmall == 3
SplitSides == { Digits(n) : n \in 1..SplitSmall } \cup { MaxU32 }
SplitOrigins == { Digits(n) : n \in 0..1 }
SplitKerfs ==
  { Digits(n) : n \in 0..SplitSmall } \cup
  { Sub(MaxU32, Digits(n)) : n \in 0..SplitSmall }

InitSplit ==
  /\ \E kerf \in SplitKerfs, cd \in CutDirections, x \in SplitOrigins, y \in SplitOrigins,
        fl \in SplitSides, fw \in SplitSides, pl \in SplitSides, pw \in SplitSides :
       /\ ~Less(fl, pl)
       /\ ~Less(fw, pw)
       /\ ~OverflowsU32(Add(x, fl))
       /\ ~OverflowsU32(Add(y, fw))
       /\ sheet = [kerf |-> kerf, cut_direction |-> cd,
                   free |-> WideFree(x, y, WideRect(fl, fw)),
                   placed |-> WideRect(pl, pw), pushed |-> None]
  /\ self = NoSolver
  /\ pc = "split"
  /\ pieces = << >>
  /\ combo = 1
  /\ pi = 1
  /\ cur = EmptyBins
  /\ gbest = None
  /\ stack = << >>
  /\ best = Best(None, 0)
  /\ bbres = None
  /\ result = EmptyBins
  /\ cmp = NoCompare
  /\ cli = NoCli
  /\ waste = NoWaste
  /\ caller = NoCaller
  /\ scale = NoScale

\* place calls split with the free rect chosen and the piece as placed
SplitCall ==
  /\ pc = "split"
  /\ \E checked \in BOOLEAN :
       sheet' = [sheet EXCEPT !.pushed =
                   Split32(sheet.kerf, sheet.cut_direction, sheet.free, sheet.placed, checked)]
  /\ pc' = IF sheet'.pushed = None THEN "panicked" ELSE "splitdone"
  /\ UNCHANGED << scale, caller, waste, cli, cmp, self, pieces, combo, pi, cur, gbest, stack, best, bbres,
                  result >>

NextSplit == SplitCall

SpecSplit == InitSplit /\ [][NextSplit]_vars

(***************************************************************************)
(* Properties of the Solution that solve returns.                          *)
(***************************************************************************)
\* solve has returned
Returned == pc = "done"

\* A bin is under test
OnBin == pc = "bin"

\* The Solution solve returns
Solution == bins_to_solution(self, result.bins)

\* The (sheet, placement) positions of the returned Solution
Positions ==
  { sp \in (1..Len(result.bins)) \X (1..MaxPieces + 1) :
      sp[2] <= Len(result.bins[sp[1]].placements) }

PlacementAt(sp) == Solution.sheets[sp[1]].placements[sp[2]]

\* The expanded piece behind a placement of the returned Solution
PieceAt(sp) == pieces[result.ids[sp[1]][sp[2]]]

\* The returned Solution is the result of branch-and-bound
FromBB == Returned /\ IsSome(bbres) /\ result = Unwrap(bbres)

Overlap(a, b) ==
  /\ a.x < b.x + b.rect.length
  /\ b.x < a.x + a.rect.length
  /\ a.y < b.y + b.rect.width
  /\ b.y < a.y + a.rect.width

\* C1: every placement of the Solution returned by solve lies inside the stock
C1_InsideStock ==
  Returned =>
    \A sp \in Positions :
      /\ PlacementAt(sp).x + PlacementAt(sp).rect.length <= Solution.stock.length
      /\ PlacementAt(sp).y + PlacementAt(sp).rect.width <= Solution.stock.width

\* A branch-and-bound result with a placement that ends on the far edge
C1_Witness ==
  /\ FromBB
  /\ \E sp \in Positions :
       /\ PlacementAt(sp).x > 0
       /\ PlacementAt(sp).x + PlacementAt(sp).rect.length = self.stock.length

\* The index of the free rect of bin that starts where the placement p
\* starts: the free rect place took for p
FreeAt(bin, p) ==
  CHOOSE i \in DOMAIN bin.free_rects :
    bin.free_rects[i].x = p.x /\ bin.free_rects[i].y = p.y

\* The candidate and the piece of the call of place that recorded p on bin
CallOf(bin, p) ==
  [scored |-> [free_idx |-> FreeAt(bin, p), rotated |-> p.rotated],
   piece |-> IF p.rotated THEN rotated(p.rect) ELSE p.rect]

\* The bin as it was after its first n calls of place, replayed from new
RECURSIVE Replayed(_, _)
Replayed(bin, n) ==
  IF n = 0 THEN NewBin(bin.stock, bin.kerf, bin.cut_direction)
  ELSE LET before == Replayed(bin, n - 1)
           call == CallOf(before, bin.placements[n])
       IN place(before, call.scored, call.piece)

\* The free list of the last call of place on bin, before it was merged
LastPushed(bin) ==
  LET before == Replayed(bin, Len(bin.placements) - 1)
      call == CallOf(before, bin.placements[Len(bin.placements)])
  IN swap_remove(before.free_rects, call.scored.free_idx)
       \o split(before.kerf, before.cut_direction,
                before.free_rects[call.scored.free_idx],
                PlacementOf(before, call.scored, call.piece).rect)

\* No two distinct placements of the bin overlap
BinNoOverlap ==
  \A i \in DOMAIN sheet.placements, j \in DOMAIN sheet.placements :
    i # j => ~Overlap(sheet.placements[i], sheet.placements[j])

\* No two distinct placements of one sheet of the returned Solution overlap
ReturnedNoOverlap ==
  \A sp \in Positions, sq \in Positions :
    (sp[1] = sq[1] /\ sp[2] # sq[2])
      => ~Overlap(PlacementAt(sp), PlacementAt(sq))

C2_ReturnedSheet ==
  /\ Returned
  /\ self.kerf > 0
  /\ \E b \in 1..Len(result.bins) : Len(result.bins[b].placements) = 3

C3_AllPlacedOnce ==
  Returned =>
    /\ Cardinality(Positions) = TotalQty(self.demands)
    /\ \A i \in 1..Len(pieces) :
         Cardinality({ sp \in Positions : result.ids[sp[1]][sp[2]] = i }) = 1

\* Three pieces on two sheets, and a branch-and-bound result
C3_Witness ==
  \/ Returned /\ Len(pieces) = 3 /\ Len(result.bins) = 2
  \/ FromBB /\ Len(pieces) = 3

\* C4: every placement of a ForceRotate piece has rotated = TRUE and carries
\* the demand's dimensions swapped
C4_ForceRotateFlag ==
  Returned =>
    \A sp \in Positions :
      PieceAt(sp).rotation = "ForceRotate" =>
        /\ PlacementAt(sp).rotated
        /\ PlacementAt(sp).rect = rotated(PieceAt(sp).rect)

\* C5: every placement of a NoRotate piece has rotated = FALSE and carries
\* the demand's rect
C5_NoRotateKept ==
  Returned =>
    \A sp \in Positions :
      PieceAt(sp).rotation = "NoRotate" =>
        /\ ~PlacementAt(sp).rotated
        /\ PlacementAt(sp).rect = PieceAt(sp).rect

\* A branch-and-bound result holding a NoRotate piece that is not square and
\* would fit rotated as well
C5_Witness ==
  /\ FromBB
  /\ \E sp \in Positions :
       /\ PieceAt(sp).rotation = "NoRotate"
       /\ PieceAt(sp).rect.length # PieceAt(sp).rect.width
       /\ fits_in(rotated(PieceAt(sp).rect), self.stock)

\* C6: the rotated flag of every placement tells whether the placed rect is
\* the demand's rect or the demand's rect swapped
C6_FlagRecordsRotation ==
  Returned =>
    \A sp \in Positions :
      PlacementAt(sp).rect =
        IF PlacementAt(sp).rotated THEN rotated(PieceAt(sp).rect) ELSE PieceAt(sp).rect

\* C9: solve returns the branch-and-bound result iff it is non-empty and has
\* fewer sheets than the greedy result, else the greedy result; its sheet
\* count is at most that of every greedy combination
C9_SmallerOfTwo ==
  (Returned /\ pieces # << >>) =>
    /\ IsSome(gbest)
    /\ \A k \in 1..Len(Combinations(self)) :
         LET g == greedy_solve(self, pieces, Combinations(self)[k].strategy,
                               Combinations(self)[k].direction)
         IN /\ IsSome(g)
            /\ Len(Unwrap(gbest).bins) <= Len(Unwrap(g).bins)
            /\ sheet_count(Solution) <= Len(Unwrap(g).bins)
    /\ IF IsSome(bbres) /\ Unwrap(bbres).bins # << >>
          /\ Len(Unwrap(bbres).bins) < Len(Unwrap(gbest).bins)
       THEN result = Unwrap(bbres)
       ELSE result = Unwrap(gbest)

\* solve returns a branch-and-bound result with fewer sheets than greedy
C9_Witness ==
  /\ FromBB
  /\ Len(result.bins) < Len(Unwrap(gbest).bins)

\* C10 on the lengths of the model, where no sum of areas reaches 2^64: on
\* an input that satisfies the precondition solve never panics; it panics
\* only on an input with a piece that fits in no permitted orientation, and
\* then returns no Solution
C10_PanicOnlyOnOversize ==
  /\ ValidInput(self) => pc # "panicked"
  /\ ~ValidInput(self) => ~Returned

\* solve has returned, with a kerf, a piece that fills the stock and that
\* only fits rotated
C10_Witness ==
  /\ Returned
  /\ self.kerf > 0
  /\ \E i \in 1..Len(pieces) :
       /\ ~fits_in(pieces[i].rect, self.stock)
       /\ rotated(pieces[i].rect) = self.stock

(***************************************************************************)
(* Properties of two calls of solve.                                       *)
(***************************************************************************)
\* Calls i and j have both been made on inputs that satisfy the
\* precondition of solve, and both returned
BothSolved(i, j) ==
  /\ ValidInput(cmp.calls[i].input) /\ ValidInput(cmp.calls[j].input)
  /\ IsSome(cmp.counts[i]) /\ IsSome(cmp.counts[j])

\* C7: rotation monotonicity; with allow_rotate on every demand solve uses
\* at most as many sheets as with allow_rotate on none, all else equal
C7_RotationMonotone ==
  pc = "compared" =>
    \A i \in DOMAIN cmp.calls, j \in DOMAIN cmp.calls :
      ( /\ cmp.calls[i].input.kerf = cmp.calls[j].input.kerf
        /\ ~cmp.calls[i].allow_rotate /\ cmp.calls[j].allow_rotate
        /\ BothSolved(i, j) )
      => Unwrap(cmp.counts[j]) <= Unwrap(cmp.counts[i])

\* C8: kerf monotonicity; with a larger kerf solve uses at least as many
\* sheets as with a smaller one, all else equal
C8_KerfMonotone ==
  pc = "compared" =>
    \A i \in DOMAIN cmp.calls, j \in DOMAIN cmp.calls :
      ( /\ cmp.calls[i].input.kerf <= cmp.calls[j].input.kerf
        /\ cmp.calls[i].allow_rotate = cmp.calls[j].allow_rotate
        /\ BothSolved(i, j) )
      => Unwrap(cmp.counts[j]) >= Unwrap(cmp.counts[i])

(***************************************************************************)
(* Properties of the command-line front end.                               *)
(***************************************************************************)
\* main has called solve on the command line
CliCalledSolve == cli # NoCli /\ pc \notin {"main", "exit1"}

\* C11: every command line that main does not reject with exit code 1
\* reaches solve with the precondition of solve satisfied (every demand fits
\* in the stock under its effective rotation constraint), and solve does
\* not abort on it
C11_CliPassesOnlyValid ==
  CliCalledSolve => (ValidInput(self) /\ pc # "panicked")

(***************************************************************************)
(* Properties of the rotation policy.                                      *)
(***************************************************************************)
\* No grain constraint applies to the demand and it may be rotated
Ungrained(d) ==
  (self.stock_grain = "None" \/ d.grain = "Auto") /\ d.allow_rotate

\* The placement at sp is of a piece that an ungrained, rotatable demand
\* expands to
UngrainedAt(sp) ==
  \E i \in DOMAIN self.demands :
    /\ Ungrained(self.demands[i])
    /\ PieceAt(sp) = Piece(self.demands[i].rect, EffectiveRotation(self, self.demands[i]))

\* C13: in the Solution solve returns, every placement of a piece with no
\* grain constraint and allow_rotate = TRUE has length >= width when the cut
\* direction is AlongLength and width >= length when it is AlongWidth
C13_OrientedAlongCut ==
  Returned =>
    \A sp \in Positions :
      UngrainedAt(sp) =>
        /\ self.cut_direction = "AlongLength"
             => PlacementAt(sp).rect.length >= PlacementAt(sp).rect.width
        /\ self.cut_direction = "AlongWidth"
             => PlacementAt(sp).rect.width >= PlacementAt(sp).rect.length

\* A branch-and-bound result under AlongLength that holds a piece demanded
\* with length < width, which would fit the stock as demanded and is placed
\* with length > width
C13_Witness ==
  /\ FromBB
  /\ self.cut_direction = "AlongLength"
  /\ \E sp \in Positions :
       /\ UngrainedAt(sp)
       /\ PieceAt(sp).rect.length < PieceAt(sp).rect.width
       /\ fits_in(PieceAt(sp).rect, self.stock)
       /\ PlacementAt(sp).rect.length > PlacementAt(sp).rect.width

\* The reference rotation policy
ReferencePolicy(stock_grain, piece_grain, allow_rotate, cut_direction, piece) ==
  LET agree == \/ (stock_grain = "AlongLength" /\ piece_grain = "Length")
               \/ (stock_grain = "AlongWidth" /\ piece_grain = "Width")
      against == \/ (cut_direction = "AlongLength" /\ piece.length < piece.width)
                 \/ (cut_direction = "AlongWidth" /\ piece.width < piece.length)
  IN IF stock_grain # "None" /\ piece_grain # "Auto"
     THEN (IF agree THEN "NoRotate" ELSE "ForceRotate")
     ELSE IF ~allow_rotate THEN "NoRotate"
     ELSE IF cut_direction = "Auto" \/ piece.length = piece.width THEN "Free"
     ELSE IF against THEN "ForceRotate" ELSE "NoRotate"

\* The number of pieces the demands ds ask for with rect r and reference
\* constraint c
RECURSIVE ReferenceCount(_, _, _)
ReferenceCount(ds, r, c) ==
  IF ds = << >> THEN 0
  ELSE (IF ds[1].rect = r
           /\ ReferencePolicy(self.stock_grain, ds[1].grain, ds[1].allow_rotate,
                              self.cut_direction, ds[1].rect) = c
        THEN ds[1].qty ELSE 0)
       + ReferenceCount(Tail(ds), r, c)

\* The rects of the demands and of the expanded pieces
ExpandedRects ==
  { self.demands[i].rect : i \in DOMAIN self.demands }
    \cup { pieces[i].rect : i \in DOMAIN pieces }

\* C14: the pieces expand_demands returns carry the constraint of the
\* reference policy: for every rect and constraint there are as many pieces
\* as the demands ask for under the reference policy
C14_PolicyTable ==
  pc \in {"greedy", "done"} =>
    \A r \in ExpandedRects, c \in RotationConstraints :
      Cardinality({ i \in DOMAIN pieces : pieces[i] = Piece(r, c) })
        = ReferenceCount(self.demands, r, c)

\* expand_demands has resolved a grain that disagrees with the stock's on a
\* piece the cut direction alone would leave unrotated, and a cut-direction
\* bias on a piece without grain
C14_Witness ==
  /\ pc = "greedy"
  /\ self.cut_direction = "AlongLength"
  /\ self.stock_grain = "AlongLength"
  /\ \E i \in DOMAIN self.demands :
       /\ self.demands[i].grain = "Width"
       /\ self.demands[i].rect.length > self.demands[i].rect.width
       /\ Piece(self.demands[i].rect, "ForceRotate") \in { pieces[j] : j \in DOMAIN pieces }
  /\ \E i \in DOMAIN self.demands :
       /\ self.demands[i].grain = "Auto"
       /\ self.demands[i].allow_rotate
       /\ self.demands[i].rect.length < self.demands[i].rect.width
       /\ Piece(self.demands[i].rect, "ForceRotate") \in { pieces[j] : j \in DOMAIN pieces }

(***************************************************************************)
(* Properties of one GuillotineBin after any sequence of place calls.      *)
(* The calls that can be made next on the bin are all calls of find_best   *)
(* with a piece, a rotation constraint and a strategy of the model.        *)
(***************************************************************************)
\* The arguments find_best can be called with
BinCalls ==
  [piece : BinPieces, rotation : RotationConstraints, strategy : BinStrategies]

\* What find_best returns for the call c on the bin
Found(c) == find_best(sheet, c.piece, c.rotation, c.strategy)

\* a and b are at least k apart along one axis
Apart(a, b, k) ==
  \/ a.x + a.rect.length + k <= b.x
  \/ b.x + b.rect.length + k <= a.x
  \/ a.y + a.rect.width + k <= b.y
  \/ b.y + b.rect.width + k <= a.y

\* Any two distinct placements of the bin are a kerf apart along one axis
BinKerfGap ==
  \A i \in DOMAIN sheet.placements, j \in DOMAIN sheet.placements :
    i # j => Apart(sheet.placements[i], sheet.placements[j], sheet.kerf)

FreeOf(scored) == sheet.free_rects[scored.free_idx]
PlacedOf(c, scored) ==
  IF scored.rotated THEN [length |-> c.piece.width, width |-> c.piece.length]
  ELSE c.piece

\* The two remainders of the claim for a piece PL x PW placed in the free
\* rect FL x FW at (fx, fy) with both leftovers positive
Remainders(kerf, cut_direction, free, placed) ==
  LET FL == free.rect.length
      FW == free.rect.width
      PL == placed.length
      PW == placed.width
      RL == FL - PL - kerf
      RW == FW - PW - kerf
      along_length ==
        \/ cut_direction = "AlongLength"
        \/ (cut_direction = "Auto" /\ FL - PL < FW - PW)
  IN IF along_length
     THEN { [x |-> free.x + PL + kerf, y |-> free.y, rect |-> [length |-> RL, width |-> PW]],
            [x |-> free.x, y |-> free.y + PW + kerf, rect |-> [length |-> FL, width |-> RW]] }
     ELSE { [x |-> free.x + PL + kerf, y |-> free.y, rect |-> [length |-> RL, width |-> FW]],
            [x |-> free.x, y |-> free.y + PW + kerf, rect |-> [length |-> PL, width |-> RW]] }

BothLeftovers(kerf, free, placed) ==
  /\ free.rect.length - placed.length - kerf > 0
  /\ free.rect.width - placed.width - kerf > 0

SeqToSet(s) == { s[i] : i \in DOMAIN s }

\* C16: when both leftovers are positive, split adds exactly the two
\* remainders of the claim, along length always for AlongLength, never for
\* AlongWidth and for Auto iff FL - PL < FW - PW; 40x30 in an empty 100x100
\* bin gives the remainders of the example
C16_SplitRule ==
  /\ OnBin =>
       \A c \in BinCalls :
         IsSome(Found(c)) =>
           LET free == FreeOf(Unwrap(Found(c)))
               placed == PlacedOf(c, Unwrap(Found(c)))
               pushed == split(sheet.kerf, sheet.cut_direction, free, placed)
           IN BothLeftovers(sheet.kerf, free, placed) =>
                /\ Len(pushed) = 2
                /\ SeqToSet(pushed) = Remainders(sheet.kerf, sheet.cut_direction, free, placed)
  /\ SeqToSet(split(0, "AlongLength", FreeRect(0, 0, Rect(100, 100)), Rect(40, 30)))
       = { [x |-> 40, y |-> 0, rect |-> [length |-> 60, width |-> 30]],
           [x |-> 0, y |-> 30, rect |-> [length |-> 100, width |-> 70]] }
  /\ SeqToSet(split(0, "AlongWidth", FreeRect(0, 0, Rect(100, 100)), Rect(40, 30)))
       = { [x |-> 40, y |-> 0, rect |-> [length |-> 60, width |-> 100]],
           [x |-> 0, y |-> 30, rect |-> [length |-> 40, width |-> 70]] }

\* A bin with cut direction Auto and a placement, on which a piece can be
\* placed in a free rect away from the origin with both leftovers positive
\* and the shorter leftover along the length
C16_Witness ==
  /\ OnBin
  /\ sheet.cut_direction = "Auto"
  /\ sheet.placements # << >>
  /\ \E c \in BinCalls :
       /\ IsSome(Found(c))
       /\ FreeOf(Unwrap(Found(c))).x > 0
       /\ BothLeftovers(sheet.kerf, FreeOf(Unwrap(Found(c))), PlacedOf(c, Unwrap(Found(c))))
       /\ FreeOf(Unwrap(Found(c))).rect.length - PlacedOf(c, Unwrap(Found(c))).length
            < FreeOf(Unwrap(Found(c))).rect.width - PlacedOf(c, Unwrap(Found(c))).width

\* The orientations find_best is to consider under a rotation constraint
Considered(piece, rotation) ==
  { o \in { [rect |-> piece, rotated |-> FALSE],
            [rect |-> [length |-> piece.width, width |-> piece.length], rotated |-> TRUE] } :
      (o.rotated => rotation # "NoRotate") /\ (~o.rotated => rotation # "ForceRotate") }

\* The free rect admits the rect: both dimensions <=
Admits(free, r) == r.length <= free.rect.length /\ r.width <= free.rect.width

\* C17: find_best returns None exactly when no free rect admits the piece
\* in a considered orientation; a candidate names a free rect and a
\* considered orientation in which the piece fits; when no free rect admits
\* the piece as demanded the candidate is rotated
C17_FindBest ==
  OnBin =>
    \A c \in BinCalls :
      LET found == Found(c)
          fitting == { io \in (DOMAIN sheet.free_rects) \X Considered(c.piece, c.rotation) :
                         Admits(sheet.free_rects[io[1]], io[2].rect) }
      IN /\ IsNone(found) <=> fitting = {}
         /\ IsSome(found) =>
              /\ Unwrap(found).free_idx \in DOMAIN sheet.free_rects
              /\ \E io \in fitting :
                   io[1] = Unwrap(found).free_idx /\ io[2].rotated = Unwrap(found).rotated
              /\ (\A io \in fitting : io[2].rotated) => Unwrap(found).rotated

\* A bin with two or more free rects and a placement on which a Free piece
\* fits only rotated and only in a free rect that is not the first, and a
\* ForceRotate piece that would fit as demanded fits nowhere
C17_Witness ==
  /\ OnBin
  /\ Len(sheet.free_rects) >= 2
  /\ sheet.placements # << >>
  /\ \E c \in BinCalls :
       /\ c.rotation = "Free"
       /\ IsSome(Found(c))
       /\ Unwrap(Found(c)).rotated
       /\ Unwrap(Found(c)).free_idx > 1
       /\ \A i \in DOMAIN sheet.free_rects : ~Admits(sheet.free_rects[i], c.piece)
  /\ \E c \in BinCalls :
       /\ c.rotation = "ForceRotate"
       /\ IsNone(Found(c))
       /\ \E i \in DOMAIN sheet.free_rects : Admits(sheet.free_rects[i], c.piece)

\* Every free rect of the bin has non-zero sides and lies inside the sheet,
\* no two free rects overlap, and no free rect overlaps a placement
BinFreeRectsSound ==
  /\ \A i \in DOMAIN sheet.free_rects :
       /\ sheet.free_rects[i].rect.length > 0
       /\ sheet.free_rects[i].rect.width > 0
       /\ sheet.free_rects[i].x + sheet.free_rects[i].rect.length <= sheet.stock.length
       /\ sheet.free_rects[i].y + sheet.free_rects[i].rect.width <= sheet.stock.width
  /\ \A i \in DOMAIN sheet.free_rects, j \in DOMAIN sheet.free_rects :
       i # j => ~Overlap(sheet.free_rects[i], sheet.free_rects[j])
  /\ \A i \in DOMAIN sheet.free_rects, j \in DOMAIN sheet.placements :
       ~Overlap(sheet.free_rects[i], sheet.placements[j])

AccountedArea == used_area(sheet) + SumAreas(sheet.free_rects)

FilledByOnePiece ==
  Len(sheet.placements) = 1 /\ sheet.placements[1].rect = sheet.stock

SideBySide(a, b) ==
  a.y = b.y /\ a.rect.width = b.rect.width /\ a.x + a.rect.length = b.x

\* a and b lie one above the other along the width
Stacked(a, b) ==
  a.x = b.x /\ a.rect.length = b.rect.length /\ a.y + a.rect.width = b.y

\* The free list place builds for a candidate before it merges
PushedBy(c) ==
  LET scored == Unwrap(Found(c))
  IN swap_remove(sheet.free_rects, scored.free_idx)
       \o split(sheet.kerf, sheet.cut_direction, FreeOf(scored), PlacedOf(c, scored))

\* m is the single rect that covers exactly the union of a and b
CoversUnion(m, a, b) ==
  /\ m.x = Min(a.x, b.x) /\ m.y = Min(a.y, b.y)
  /\ m.x + m.rect.length = Max(a.x + a.rect.length, b.x + b.rect.length)
  /\ m.y + m.rect.width = Max(a.y + a.rect.width, b.y + b.rect.width)
  /\ area(m.rect) = area(a.rect) + area(b.rect)

\* C20: after place the free list is a fixpoint of the permitted merges: no
\* two free rects lie side by side unless the cut direction is AlongWidth,
\* none are stacked unless it is AlongLength; on the list place is about to
\* merge, try_merge joins a pair only along a permitted axis, into the rect
\* covering exactly their union, and merging keeps the free area
C20_MergeFixpoint ==
  OnBin =>
    /\ \A i \in DOMAIN sheet.free_rects, j \in DOMAIN sheet.free_rects :
         /\ SideBySide(sheet.free_rects[i], sheet.free_rects[j])
              => sheet.cut_direction = "AlongWidth"
         /\ Stacked(sheet.free_rects[i], sheet.free_rects[j])
              => sheet.cut_direction = "AlongLength"
    /\ \A c \in BinCalls :
         IsSome(Found(c)) =>
           LET pushed == PushedBy(c)
               merged == merge_free_rects(pushed, sheet.cut_direction)
           IN /\ \A i \in DOMAIN pushed, j \in DOMAIN pushed :
                   LET a == pushed[i]
                       b == pushed[j]
                       m == try_merge(a, b, sheet.cut_direction)
                       along_length == SideBySide(a, b) \/ SideBySide(b, a)
                       along_width == Stacked(a, b) \/ Stacked(b, a)
                   IN i # j =>
                        /\ IsSome(m) <=>
                             \/ (along_length /\ sheet.cut_direction # "AlongWidth")
                             \/ (along_width /\ sheet.cut_direction # "AlongLength")
                        /\ IsSome(m) => CoversUnion(Unwrap(m), a, b)
              /\ SumAreas(merged) = SumAreas(pushed)
              /\ merged = place(sheet, Unwrap(Found(c)), c.piece).free_rects

\* A bin with cut direction AlongLength on which two or more pieces are
\* placed and two stacked free rects are left unmerged
C20_Witness ==
  /\ OnBin
  /\ sheet.cut_direction = "AlongLength"
  /\ Len(sheet.placements) >= 2
  /\ \E i \in DOMAIN sheet.free_rects, j \in DOMAIN sheet.free_rects :
       Stacked(sheet.free_rects[i], sheet.free_rects[j])

(***************************************************************************)
(* The waste percentage of a returned Solution.                            *)
(***************************************************************************)
Summed == pc = "summed"

\* The exact areas behind the summary
TotalStockArea == Mul(Area64(waste.solution.stock), Digits(Len(waste.solution.sheets)))
TotalPlacedArea == PlacedArea(AllPlacements(waste.solution.sheets))

\* C12: total_waste_percent of a returned Solution with at least one sheet:
\* the placed area is above 0 and at most sheet_count * stock_area, the
\* percentage is at least 0 and below 100, and it is 0 exactly when the
\* placed area equals sheet_count * stock_area; with no sheets it is 0.
C12_WastePercentRange ==
  (waste # NoWaste /\ pc # "returned") =>
    /\ Summed
    /\ waste.solution.sheets # << >> =>
         /\ TotalPlacedArea # << >>
         /\ ~Less(TotalStockArea, TotalPlacedArea)
         /\ F64Less(Unwrap(waste.percent), F64Hundred)
         /\ (Unwrap(waste.percent) = F64Zero) <=> (TotalPlacedArea = TotalStockArea)
    /\ waste.solution.sheets = << >> => Unwrap(waste.percent) = F64Zero

(***************************************************************************)
(* The choice of find_best among the fitting candidates.                   *)
(***************************************************************************)
\* The fitting (free rect index, orientation) candidates of the call c
Fitting(c) ==
  { io \in (DOMAIN sheet.free_rects) \X Considered(c.piece, c.rotation) :
      Admits(sheet.free_rects[io[1]], io[2].rect) }

\* The score of a candidate under the strategy of the call
ScoreOf(c, io) == score(io[2].rect, sheet.free_rects[io[1]].rect, c.strategy)

\* Lexicographic order of pairs
LexLess(a, b) == a[1] < b[1] \/ (a[1] = b[1] /\ a[2] < b[2])

\* Scan order: lower free rect index first, then as demanded before rotated
ScannedBefore(i, rot, io) == i < io[1] \/ (i = io[1] /\ (rot => io[2].rotated))

\* C21: the candidate find_best returns carries the score of its free rect
\* and orientation; no fitting candidate has a lexicographically smaller
\* score; every fitting candidate with the same score comes at or after it
\* in scan order; and the score has no component below 0 (no subtraction
\* underflowed)
C21_SmallestScoreFirstFound ==
  OnBin =>
    \A c \in BinCalls :
      IsSome(Found(c)) =>
        LET f == Unwrap(Found(c))
        IN /\ \E io \in Fitting(c) :
                /\ io[1] = f.free_idx /\ io[2].rotated = f.rotated
                /\ f.score = ScoreOf(c, io)
           /\ f.score[1] >= 0 /\ f.score[2] >= 0
           /\ \A io \in Fitting(c) :
                /\ ~LexLess(ScoreOf(c, io), f.score)
                /\ ScoreOf(c, io) = f.score => ScannedBefore(f.free_idx, f.rotated, io)

\* A bin with placements on which one call has a fitting candidate in the
\* first free rect that is beaten by a later one, a second candidate in a
\* later free rect ties with the returned one, and another call returns the
\* piece as demanded although the rotated piece ties in the same free rect
C21_Witness ==
  /\ OnBin
  /\ sheet.placements # << >>
  /\ \E c \in BinCalls :
       /\ IsSome(Found(c))
       /\ Unwrap(Found(c)).free_idx > 1
       /\ \E io \in Fitting(c) : io[1] = 1
  /\ \E c \in BinCalls :
       /\ IsSome(Found(c))
       /\ \E io \in Fitting(c) :
            io[1] > Unwrap(Found(c)).free_idx /\ ScoreOf(c, io) = Unwrap(Found(c)).score
  /\ \E c \in BinCalls :
       /\ IsSome(Found(c))
       /\ c.piece.length # c.piece.width
       /\ ~Unwrap(Found(c)).rotated
       /\ \E io \in Fitting(c) :
            /\ io[1] = Unwrap(Found(c)).free_idx
            /\ io[2].rotated
            /\ ScoreOf(c, io) = Unwrap(Found(c)).score

(***************************************************************************)
(* split with at most one positive leftover.                               *)
(***************************************************************************)
\* The leftovers RL and RW of the claim
LeftoverL(kerf, free, placed) ==
  IF free.rect.length - placed.length - kerf > 0
  THEN free.rect.length - placed.length - kerf ELSE 0

LeftoverW(kerf, free, placed) ==
  IF free.rect.width - placed.width - kerf > 0
  THEN free.rect.width - placed.width - kerf ELSE 0

\* C22: when only RL > 0 split adds exactly the rect RL x FW at
\* (fx+PL+kerf, fy); when only RW > 0 exactly the rect FL x RW at
\* (fx, fy+PW+kerf); when both are 0 it adds nothing and place removes the
\* free rect without replacement
C22_SingleRemainder ==
  OnBin =>
    \A c \in BinCalls :
      IsSome(Found(c)) =>
        LET free == FreeOf(Unwrap(Found(c)))
            placed == PlacedOf(c, Unwrap(Found(c)))
            RL == LeftoverL(sheet.kerf, free, placed)
            RW == LeftoverW(sheet.kerf, free, placed)
            pushed == split(sheet.kerf, sheet.cut_direction, free, placed)
            after == place(sheet, Unwrap(Found(c)), c.piece)
        IN /\ (RL > 0 /\ RW = 0) =>
                pushed = << [x |-> free.x + placed.length + sheet.kerf, y |-> free.y,
                             rect |-> [length |-> RL, width |-> free.rect.width]] >>
           /\ (RL = 0 /\ RW > 0) =>
                pushed = << [x |-> free.x, y |-> free.y + placed.width + sheet.kerf,
                             rect |-> [length |-> free.rect.length, width |-> RW]] >>
           /\ (RL = 0 /\ RW = 0) =>
                /\ pushed = << >>
                /\ Len(after.free_rects) = Len(sheet.free_rects) - 1
                /\ SeqToSet(after.free_rects) = SeqToSet(sheet.free_rects) \ {free}

\* A bin with a kerf and placements on which one piece leaves only RL > 0
\* and so one remainder, and another piece leaves material no wider than the
\* kerf beside it and so no remainder
C22_Witness ==
  /\ OnBin
  /\ sheet.kerf > 0
  /\ sheet.placements # << >>
  /\ \E c \in BinCalls :
       /\ IsSome(Found(c))
       /\ LeftoverL(sheet.kerf, FreeOf(Unwrap(Found(c))), PlacedOf(c, Unwrap(Found(c)))) > 0
       /\ LeftoverW(sheet.kerf, FreeOf(Unwrap(Found(c))), PlacedOf(c, Unwrap(Found(c)))) = 0
       /\ Len(split(sheet.kerf, sheet.cut_direction, FreeOf(Unwrap(Found(c))),
                    PlacedOf(c, Unwrap(Found(c))))) = 1
  /\ \E c \in BinCalls :
       /\ IsSome(Found(c))
       /\ split(sheet.kerf, sheet.cut_direction, FreeOf(Unwrap(Found(c))),
                PlacedOf(c, Unwrap(Found(c)))) = << >>
       /\ PlacedOf(c, Unwrap(Found(c))) # FreeOf(Unwrap(Found(c))).rect

(***************************************************************************)
(* The choice of the bin in a greedy pass.                                 *)
(***************************************************************************)
\* A step of a greedy pass that places piece number pi
GreedyPlaced == pc = "greedy" /\ pc' = "greedy" /\ combo' = combo /\ pi' = pi + 1

\* What find_best returns for piece number pi in the open bin b
OpenFound(b) ==
  find_best(cur.bins[b], pieces[pi].rect, pieces[pi].rotation,
            Combinations(self)[combo].strategy)

\* The open bins that take piece number pi
Takers == { b \in DOMAIN cur.bins : IsSome(OpenFound(b)) }

\* The open bin the claim names: smallest score, lowest index on ties
Chosen(b) ==
  /\ b \in Takers
  /\ \A b2 \in Takers :
       /\ ~LexLess(Unwrap(OpenFound(b2)).score, Unwrap(OpenFound(b)).score)
       /\ Unwrap(OpenFound(b2)).score = Unwrap(OpenFound(b)).score => b <= b2

\* Bin b of the pass after the step holds one placement more, of piece pi
GainedPiece(b) ==
  /\ Len(cur'.bins[b].placements) =
       (IF b \in DOMAIN cur.bins THEN Len(cur.bins[b].placements) ELSE 0) + 1
  /\ cur'.ids[b][Len(cur'.ids[b])] = pi
  /\ cur'.bins[b].placements[Len(cur'.bins[b].placements)].rect
       \in {pieces[pi].rect, rotated(pieces[pi].rect)}

\* C23: a step of a greedy pass opens a new bin for the piece iff no open bin
\* takes it; otherwise the piece goes to the open bin with the smallest
\* find_best score, the lowest index on ties, and the other bins stay as
\* they are; the number of bins of a pass never decreases
C23_GreedyBinChoice ==
  [][GreedyPlaced =>
       /\ Len(cur'.bins) >= Len(cur.bins)
       /\ (Len(cur'.bins) = Len(cur.bins) + 1) <=> (Takers = {})
       /\ Takers = {} =>
            /\ SubSeq(cur'.bins, 1, Len(cur.bins)) = cur.bins
            /\ GainedPiece(Len(cur'.bins))
       /\ Takers # {} =>
            /\ Len(cur'.bins) = Len(cur.bins)
            /\ \E b \in Takers :
                 /\ Chosen(b)
                 /\ GainedPiece(b)
                 /\ \A k \in DOMAIN cur.bins : k # b => cur'.bins[k] = cur.bins[k]]_vars

\* A greedy pass with two open bins about to place a piece that both bins
\* take, the second with the strictly smaller score
C23_Witness ==
  /\ pc = "greedy"
  /\ pi <= Len(pieces)
  /\ Len(cur.bins) >= 2
  /\ {1, 2} \subseteq Takers
  /\ LexLess(Unwrap(OpenFound(2)).score, Unwrap(OpenFound(1)).score)

(***************************************************************************)
(* The lower bound of branch-and-bound.                                    *)
(***************************************************************************)
\* More sheets than any packing uses
NoPacking == MaxPieces + CliMaxPieces + 2

\* The bin lists one branching step leads to from (idx, bs): the piece in an
\* existing bin in a permitted orientation, or in a new bin of a direction
Children(solver, ps, idx, bs) ==
  { Unwrap(BranchExisting(bs, ps, idx, bi, rot)) :
      <<bi, rot>> \in { br \in (DOMAIN bs.bins) \X BOOLEAN :
                         /\ \E k \in DOMAIN Orientations(ps[idx].rect, ps[idx].rotation) :
                              Orientations(ps[idx].rect, ps[idx].rotation)[k] = br[2]
                         /\ IsSome(BranchExisting(bs, ps, idx, br[1], br[2])) } }
  \cup
  { Unwrap(BranchNew(solver, bs, ps, idx, dir)) :
      dir \in { d \in CutDirections :
                  /\ \E k \in DOMAIN bb_directions(solver) : bb_directions(solver)[k] = d
                  /\ IsSome(BranchNew(solver, bs, ps, idx, d)) } }

SetMin(S) == CHOOSE m \in S : \A n \in S : m <= n

\* The fewest sheets of a complete packing that the branching rules reach
\* from (idx, bs) when nothing is pruned; NoPacking when there is none
RECURSIVE FewestSheets(_, _, _, _)
FewestSheets(solver, ps, idx, bs) ==
  IF idx > Len(ps) THEN Len(bs.bins)
  ELSE SetMin({NoPacking}
              \cup { FewestSheets(solver, ps, idx + 1, ch) : ch \in Children(solver, ps, idx, bs) })

(***************************************************************************)
(* The lower bound at the full width of u64, for a call of solve given in  *)
(* units (scale).  A sum that passes 2^64 - 1 panics in a build with       *)
(* overflow checks and wraps in a build without.  A further machine is     *)
(* solve on such calls (SpecBound below): the machine of solve with the    *)
(* lower bound of bb_recurse computed in u64.                              *)
(***************************************************************************)
\* Rect::area of the rect with sides r.length * unit and r.width * unit
AreaAt(r, unit) == Mul(Mul(Digits(r.length), unit), Mul(Digits(r.width), unit))

\* Iterator::sum of u64 values from acc on: None when an addition panics
RECURSIVE U64Sum(_, _, _)
U64Sum(acc, values, checked) ==
  IF values = << >> THEN Some(acc)
  ELSE LET next == U64Result(Add(acc, values[1]), checked)
       IN IF IsNone(next) THEN None
          ELSE U64Sum(Unwrap(next), Tail(values), checked)

\* remaining_area of bb_recurse: the u64 sum of the areas of pieces[idx..]
RemainingArea64(ps, from, unit, checked) ==
  U64Sum(<< >>, [i \in 1..(Len(ps) + 1 - from) |->
                   AreaAt(ps[from + i - 1].rect, unit)], checked)

\* The free rects of all bins in order
RECURSIVE AllFreeRects(_)
AllFreeRects(bins) ==
  IF bins = << >> THEN << >> ELSE bins[1].free_rects \o AllFreeRects(Tail(bins))

\* open_free_area of bb_recurse: the u64 sum of the areas of all free rects
OpenFreeArea64(bins, unit, checked) ==
  U64Sum(<< >>, [i \in DOMAIN AllFreeRects(bins) |->
                   AreaAt(AllFreeRects(bins)[i].rect, unit)], checked)

\* The least q from n on with q * b >= a
RECURSIVE LeastMultiple(_, _, _)
LeastMultiple(a, b, n) ==
  IF ~Less(Mul(Digits(n), b), a) THEN n ELSE LeastMultiple(a, b, n + 1)

\* u64::div_ceil for b > 0
DivCeil64(a, b) == LeastMultiple(a, b, 0)

\* lower_bound of bb_recurse in u64: None when one of the two sums panics
LowerBound64(solver, ps, idx, bins, unit, checked) ==
  LET remaining_area == RemainingArea64(ps, idx, unit, checked)
      open_free_area == OpenFreeArea64(bins, unit, checked)
  IN IF IsNone(remaining_area) \/ IsNone(open_free_area) THEN None
     ELSE
       LET stock_area == AreaAt(solver.stock, unit)
           min_extra_bins == IF Unwrap(remaining_area) # << >>
                             THEN DivCeil64(Unwrap(remaining_area), stock_area)
                             ELSE 0
           needed == IF Less(Unwrap(open_free_area), Unwrap(remaining_area))
                     THEN Len(bins)
                          + DivCeil64(Sub(Unwrap(remaining_area), Unwrap(open_free_area)),
                                      stock_area)
                     ELSE Len(bins)
       IN Some(Max(needed, Len(bins) + SaturatingSub(min_extra_bins, Len(bins))))

\* The calls: a square stock of side 1 or BoundSide units without rotation
\* and without kerf; one demand, or two with the larger rect first, of up
\* to BoundMaxQty pieces at least as long as wide whose sides are the side
\* of the stock or one of its two halves; and a unit of 1, or the largest
\* or half the largest for which the stock side is a u32
BoundSide == 5
BoundMaxQty == 2

BoundStockSides == { 1, BoundSide }

BoundPieceSides(side) ==
  { n \in { side, side \div 2, side - side \div 2 } : n > 0 }

BoundCuts(side) ==
  { [rect |-> r, qty |-> q, grain |-> "Auto"] :
      r \in { d \in Dims(side) : /\ d.length \in BoundPieceSides(side)
                                 /\ d.width \in BoundPieceSides(side)
                                 /\ d.width <= d.length },
      q \in 1..BoundMaxQty }

BoundCutLists(side) ==
  { << c >> : c \in BoundCuts(side) }
  \cup { cs \in [1..2 -> BoundCuts(side)] : area(cs[1].rect) > area(cs[2].rect) }

\* 2^31 - 1
HalfMaxU32 == 2 * (2 ^ (U32Bits - 2) - 1) + 1

\* The largest unit u with side * u <= 2^32 - 1
LargestUnit(side) ==
  IF side = 1 THEN MaxU32
  ELSE Digits(2 * (HalfMaxU32 \div side) + (2 * (HalfMaxU32 % side) + 1) \div side)

BoundUnits(side) ==
  { Digits(1), LargestUnit(side), LargestUnit(2 * side) }

InitBound ==
  /\ \E side \in BoundStockSides :
       \E cs \in BoundCutLists(side), unit \in BoundUnits(side) :
         /\ self = Solver(Rect(side, side), 0, "Auto", "None", DemandsOf(cs, FALSE))
         /\ scale = unit
  /\ pc = "expand"
  /\ pieces = << >>
  /\ combo = 1
  /\ pi = 1
  /\ cur = EmptyBins
  /\ gbest = None
  /\ stack = << >>
  /\ best = Best(None, 0)
  /\ bbres = None
  /\ result = EmptyBins
  /\ cmp = NoCompare
  /\ cli = NoCli
  /\ sheet = NoSheet
  /\ waste = NoWaste
  /\ caller = NoCaller

\* lower_bound of the call of bb_recurse on top of the stack, in a build
\* with (checked) or without overflow checks: None when a sum panics
TopBound(checked) ==
  LowerBound64(self, pieces, Top.idx, Top.bs.bins, scale, checked)

\* bb_recurse: either pruning test returns
BoundPrune ==
  /\ pc = "bb" /\ stack # << >>
  /\ Top.stage = "enter"
  /\ Top.idx <= Len(pieces)
  /\ \/ Len(Top.bs.bins) >= best.count
     \/ \E checked \in BOOLEAN :
          /\ IsSome(TopBound(checked))
          /\ Unwrap(TopBound(checked)) >= best.count
  /\ stack' = Pop
  /\ UNCHANGED best
  /\ BBUnchanged

\* bb_recurse: past the first pruning test, a sum of areas overflows in a
\* build with overflow checks
BoundPanic ==
  /\ pc = "bb" /\ stack # << >>
  /\ Top.stage = "enter"
  /\ Top.idx <= Len(pieces)
  /\ Len(Top.bs.bins) < best.count
  /\ IsNone(TopBound(TRUE))
  /\ pc' = "panicked"
  /\ UNCHANGED << scale, caller, waste, cli, sheet, cmp, self, pieces, combo, pi, cur, gbest,
                  stack, best, bbres, result >>

\* bb_recurse: not pruned, enter the loop over the existing bins
BoundBranch ==
  /\ pc = "bb" /\ stack # << >>
  /\ Top.stage = "enter"
  /\ Top.idx <= Len(pieces)
  /\ Len(Top.bs.bins) < best.count
  /\ \E checked \in BOOLEAN :
       /\ IsSome(TopBound(checked))
       /\ Unwrap(TopBound(checked)) < best.count
  /\ stack' = [stack EXCEPT ![Len(stack)].stage = "existing"]
  /\ UNCHANGED best
  /\ BBUnchanged

NextBound ==
  \/ Expand
  \/ GreedyPlace
  \/ GreedyPassDone
  \/ BBLeaf
  \/ BoundPrune
  \/ BoundPanic
  \/ BoundBranch
  \/ BBTryExisting
  \/ BBExistingDone
  \/ BBTryNew
  \/ BBNewDone
  \/ BBReturn
  \/ SolveReturn

SpecBound == InitBound /\ [][NextBound]_vars

\* bb_recurse has been entered at a state that is not a leaf
Entered ==
  pc = "bb" /\ stack # << >> /\ Top.stage = "enter" /\ Top.idx <= Len(pieces)

\* With a unit of 1 the u64 computation, in either build, gives the lower
\* bound computed on the lengths of the model
BoundsAgree ==
  (Entered /\ scale = Digits(1)) =>
    \A checked \in BOOLEAN :
      TopBound(checked) = Some(LowerBound(self, pieces, Top.idx, Top.bs.bins))

\* C24 at the width of u64: when bb_recurse computes a lower bound >=
\* best_count for a search state, no complete packing the branching rules
\* reach from that state has fewer than best_count sheets, in a build
\* without overflow checks as in one with them
C24_PruneKeepsBetter ==
  (/\ Entered
   /\ Len(Top.bs.bins) < best.count
   /\ Unwrap(TopBound(FALSE)) >= best.count) =>
    FewestSheets(self, pieces, Top.idx, Top.bs) >= best.count

\* C10 at the width of u64: on an input that satisfies the precondition no
\* call of bb_recurse that solve makes panics, in a build with and in a
\* build without overflow checks
C10_ValidInputReturns == ValidInput(self) => pc # "panicked"

\* C24 on the lengths of the model, where no sum of areas reaches 2^64: at
\* every search state the lower bound is at most the sheet count of
\* every complete packing the branching rules reach from it, so when the
\* lower bound is >= best_count no such packing has fewer than best_count
\* sheets
C24_LowerBoundAdmissible ==
  Entered =>
    /\ LowerBound(self, pieces, Top.idx, Top.bs.bins)
         = Max(IF RemainingArea(pieces, Top.idx) > OpenFreeArea(Top.bs.bins)
               THEN Len(Top.bs.bins)
                    + (RemainingArea(pieces, Top.idx) - OpenFreeArea(Top.bs.bins)
                       + area(self.stock) - 1) \div area(self.stock)
               ELSE Len(Top.bs.bins),
               Len(Top.bs.bins)
               + Max(0, (RemainingArea(pieces, Top.idx) + area(self.stock) - 1)
                          \div area(self.stock) - Len(Top.bs.bins)))
    /\ FewestSheets(self, pieces, Top.idx, Top.bs) < NoPacking =>
         /\ LowerBound(self, pieces, Top.idx, Top.bs.bins)
              <= FewestSheets(self, pieces, Top.idx, Top.bs)
         /\ LowerBound(self, pieces, Top.idx, Top.bs.bins) >= best.count =>
              FewestSheets(self, pieces, Top.idx, Top.bs) >= best.count

\* A search state with open bins and pieces left that the lower bound
\* prunes, above the number of open bins, with a complete packing below it
C24_Witness ==
  /\ Entered
  /\ Top.bs.bins # << >>
  /\ Len(Top.bs.bins) < best.count
  /\ LowerBound(self, pieces, Top.idx, Top.bs.bins) >= best.count
  /\ LowerBound(self, pieces, Top.idx, Top.bs.bins) > Len(Top.bs.bins)
  /\ FewestSheets(self, pieces, Top.idx, Top.bs) < NoPacking

(***************************************************************************)
(* What branch-and-bound records and returns.                              *)
(***************************************************************************)
RECURSIVE Flatten(_)
Flatten(ss) == IF ss = << >> THEN << >> ELSE ss[1] \o Flatten(Tail(ss))

\* The bin list holds every piece of the expanded list exactly once
Complete(bs) ==
  /\ Len(Flatten(bs.ids)) = Len(pieces)
  /\ SeqToSet(Flatten(bs.ids)) = 1..Len(pieces)
  /\ \A b \in DOMAIN bs.bins : Len(bs.bins[b].placements) = Len(bs.ids[b])

\* C25: while branch_and_bound runs, best_count never increases; best
\* changes only at a leaf whose bin count is strictly below best_count, and
\* the bin list recorded holds all pieces; what branch_and_bound returns is
\* the empty solution or a complete bin list with strictly fewer sheets than
\* the upper bound it was given, the sheet count of the greedy result
C25_BestOnlyImproves ==
  [][pc = "bb" =>
       /\ best'.count <= best.count
       /\ best' # best =>
            /\ stack # << >> /\ Top.stage = "enter" /\ Top.idx = Len(pieces) + 1
            /\ Len(Top.bs.bins) < best.count
            /\ best' = Best(Some(Top.bs), Len(Top.bs.bins))
            /\ Complete(Top.bs)
       /\ pc' = "choose" =>
            \/ bbres' = None
            \/ /\ IsSome(bbres')
               /\ Complete(Unwrap(bbres'))
               /\ Len(Unwrap(bbres').bins) < Len(Unwrap(gbest).bins)]_vars

\* the search stands at a leaf whose sheet count equals best_count, after an
\* earlier leaf with fewer sheets than the greedy result was recorded: this
\* leaf must not be recorded
C25_Witness ==
  /\ pc = "bb"
  /\ stack # << >>
  /\ Top.stage = "enter"
  /\ Top.idx = Len(pieces) + 1
  /\ IsSome(best.bins)
  /\ Len(Top.bs.bins) = best.count
  /\ Top.bs # Unwrap(best.bins)
  /\ best.count < Len(Unwrap(gbest).bins)

(***************************************************************************)
(* C26: branch isolation in bb_recurse.                                    *)
(***************************************************************************)
\* The child bin lists bb_recurse builds from the bin list bs for piece idx:
\* one per (bin, orientation) that fits, one per direction of a new bin
ChildrenOf(bs, idx) ==
  { Unwrap(c) : c \in { c \in { BranchExisting(bs, pieces, idx,
                                     ExistingBranches(bs, pieces, idx)[k].bi,
                                     ExistingBranches(bs, pieces, idx)[k].rot) :
                                   k \in DOMAIN ExistingBranches(bs, pieces, idx) } \cup
                                 { BranchNew(self, bs, pieces, idx, bb_directions(self)[k]) :
                                   k \in DOMAIN bb_directions(self) } : IsSome(c) } }

\* C26: a step of the search never changes the bin list (nor the piece
\* index) of a call of bb_recurse that is still on the stack, so the bin
\* list of a parent is the same before and after each recursive call; each
\* child started is built from the bin list its parent holds at that moment
\* and adds the piece to one bin only, so that every call on the stack is a
\* child of the bin list its caller still holds; and the bin list recorded
\* as best changes only in the step of a leaf that records its own bin list
C26_BranchIsolation ==
  [][pc = "bb" =>
       /\ \A i \in 1..(Len(stack) - 1) :
            stack[i + 1].bs \in ChildrenOf(stack[i].bs, stack[i].idx)
       /\ \A i \in 1..Min(Len(stack), Len(stack')) :
            stack'[i].bs = stack[i].bs /\ stack'[i].idx = stack[i].idx
       /\ Len(stack') > Len(stack) =>
            /\ Len(stack') = Len(stack) + 1
            /\ stack'[Len(stack')].idx = Top.idx + 1
            /\ stack'[Len(stack')].bs \in ChildrenOf(Top.bs, Top.idx)
            /\ \A b \in 1..Len(Top.bs.bins) :
                 \/ stack'[Len(stack')].bs.bins[b] = Top.bs.bins[b]
                 \/ /\ Len(stack'[Len(stack')].bs.bins) = Len(Top.bs.bins)
                    /\ \A c \in 1..Len(Top.bs.bins) :
                         c # b => stack'[Len(stack')].bs.bins[c] = Top.bs.bins[c]
       /\ best'.bins # best.bins =>
            /\ stack # << >> /\ Top.idx = Len(pieces) + 1
            /\ best'.bins = Some(Top.bs)]_vars

\* A second sibling for the same piece is running: the parent already ran
\* a child that placed the piece, that child returned, and another child
\* that places the piece differently is on the stack, while a bin list is
\* recorded as best
C26_Witness ==
  /\ pc = "bb"
  /\ Len(stack) >= 2
  /\ IsSome(best.bins)
  /\ LET parent == stack[Len(stack) - 1]
         br == ExistingBranches(parent.bs, pieces, parent.idx)
     IN /\ parent.stage = "existing"
        /\ \E j \in 1..(parent.k - 2) :
             LET first == BranchExisting(parent.bs, pieces, parent.idx, br[j].bi, br[j].rot)
             IN IsSome(first) /\ Unwrap(first) # Top.bs
        /\ Top.bs \in ChildrenOf(parent.bs, parent.idx)


(***************************************************************************)
(* C27: the leftovers of split over all u32 values.                        *)
(***************************************************************************)
\* The exact sums and leftovers of the call, in unbounded integers
SplitSumL == Add(sheet.placed.length, sheet.kerf)
SplitSumW == Add(sheet.placed.width, sheet.kerf)
SplitLeftL == SaturatingSub32(sheet.free.rect.length, SplitSumL)
SplitLeftW == SaturatingSub32(sheet.free.rect.width, SplitSumW)
SplitReturned == sheet # NoSheet /\ pc \in {"splitdone", "panicked"}

\* C27: for all u32 kerfs and sides split returns, and the free rects it
\* pushed are those of the leftovers saturating(FL - PL - kerf) and
\* saturating(FW - PW - kerf): a side whose leftover is 0 (PL + kerf >= FL,
\* also beyond 2^32 - 1) gets no remainder, a side whose leftover is above 0
\* gets one remainder of that size, at the origin of the free rect moved by
\* the piece and the kerf without wrapping around
C27_SplitSaturates ==
  SplitReturned =>
    /\ pc = "splitdone"
    /\ LET pushed == Unwrap(sheet.pushed)
           right == IF SplitLeftL # << >> THEN 1 ELSE 0
           bottom == IF SplitLeftW # << >> THEN 1 ELSE 0
       IN /\ Len(pushed) = right + bottom
          /\ right = 1 =>
               /\ pushed[1].rect.length = SplitLeftL
               /\ pushed[1].x = Add(sheet.free.x, SplitSumL)
               /\ pushed[1].y = sheet.free.y
          /\ bottom = 1 =>
               /\ pushed[Len(pushed)].rect.width = SplitLeftW
               /\ pushed[Len(pushed)].y = Add(sheet.free.y, SplitSumW)
               /\ pushed[Len(pushed)].x = sheet.free.x

(***************************************************************************)
(* C28: the gate of branch_and_bound.                                      *)
(***************************************************************************)
\* C28: the expanded piece count is the sum of the demand quantities.  When
\* it is above 20, branch_and_bound makes no call of bb_recurse and returns
\* the empty solution, and solve returns the greedy result; when it is 20
\* or less, branch_and_bound calls bb_recurse on piece 0 with no bins
C28_Gate ==
  [][/\ pc # "expand" => Len(pieces) = TotalQty(self.demands)
     /\ (pc = "greedy" /\ pc' = "bb") =>
          /\ Len(pieces) > 20 => stack' = << >>
          /\ Len(pieces) <= 20 =>
               stack' = << [idx |-> 1, bs |-> EmptyBins, stage |-> "enter", k |-> 1] >>
     /\ (pc = "bb" /\ Len(pieces) > 20) =>
          /\ stack = << >>
          /\ pc' = "choose"
          /\ bbres' = None
     /\ (pc = "choose" /\ Len(pieces) > 20) =>
          /\ bbres = None
          /\ result' = Unwrap(gbest)]_vars

\* solve returned the greedy result for 21 pieces, without a search
C28_Witness ==
  /\ pc = "done"
  /\ Len(pieces) = 21
  /\ TotalQty(self.demands) = 21
  /\ bbres = None
  /\ best = Best(None, Len(Unwrap(gbest).bins))
  /\ result = Unwrap(gbest)
  /\ Len(result.bins) >= 20

(***************************************************************************)
(* C29: termination of solve.                                              *)
(***************************************************************************)
\* The number of placements in a bin list
PlacedCount(bs) ==
  Len(Flatten([b \in DOMAIN bs.bins |-> bs.bins[b].placements]))

\* The free list of place before merge_free_rects runs on it
PreMerge(bin, scored, piece) ==
  swap_remove(bin.free_rects, scored.free_idx)
    \o split(bin.kerf, bin.cut_direction, bin.free_rects[scored.free_idx],
             PlacementOf(bin, scored, piece).rect)

\* One round of the loop of merge_free_rects: the first pair merged
MergeOnce(frs, cut_direction) ==
  LET p == FirstPair(MergeablePairs(frs, cut_direction))
  IN swap_remove([frs EXCEPT ![p[1]] =
                    Unwrap(try_merge(frs[p[1]], frs[p[2]], cut_direction))], p[2])

\* Every round of the merge loop from frs on removes one free rect
RECURSIVE MergeShrinks(_, _)
MergeShrinks(frs, cut_direction) ==
  \/ MergeablePairs(frs, cut_direction) = {}
  \/ /\ Len(MergeOnce(frs, cut_direction)) = Len(frs) - 1
     /\ MergeShrinks(MergeOnce(frs, cut_direction), cut_direction)

\* The rounds of the merge loop from frs on
RECURSIVE MergeRounds(_, _)
MergeRounds(frs, cut_direction) ==
  IF MergeablePairs(frs, cut_direction) = {} THEN 0
  ELSE 1 + MergeRounds(MergeOnce(frs, cut_direction), cut_direction)

\* The calls of place the state can make next: [bin, scored, piece]
PlaceCallsNext ==
  IF pc = "greedy" /\ pi <= Len(pieces)
  THEN LET c == Combinations(self)[combo]
       IN { [bin |-> b, piece |-> pieces[pi].rect,
             scored |-> find_best(b, pieces[pi].rect, pieces[pi].rotation, c.strategy)] :
              b \in { cur.bins[i] : i \in DOMAIN cur.bins } \cup
                    { NewBin(self.stock, self.kerf, c.direction) } }
  ELSE IF pc = "bb" /\ stack # << >> /\ Top.idx <= Len(pieces)
  THEN LET piece == pieces[Top.idx].rect
           os == Orientations(piece, pieces[Top.idx].rotation)
       IN { [bin |-> Top.bs.bins[i],
             piece |-> IF os[o] THEN rotated(piece) ELSE piece,
             scored |-> find_best(Top.bs.bins[i], IF os[o] THEN rotated(piece) ELSE piece,
                                  "NoRotate", "BestAreaFit")] :
              i \in DOMAIN Top.bs.bins, o \in DOMAIN os } \cup
          { [bin |-> NewBin(self.stock, self.kerf, bb_directions(self)[d]),
             piece |-> piece,
             scored |-> find_best(NewBin(self.stock, self.kerf, bb_directions(self)[d]),
                                  piece, pieces[Top.idx].rotation, "BestAreaFit")] :
              d \in DOMAIN bb_directions(self) }
  ELSE IF pc = "bin"
  THEN { [bin |-> sheet, piece |-> c.piece,
          scored |-> find_best(sheet, c.piece, c.rotation, c.strategy)] : c \in BinCalls }
  ELSE {}

\* The merge loop of a call of place halts: every round removes one free
\* rect, there are fewer rounds than free rects, and no pair is left
MergeHalts(c) ==
  LET before == PreMerge(c.bin, Unwrap(c.scored), c.piece)
      after == place(c.bin, Unwrap(c.scored), c.piece).free_rects
  IN /\ MergeShrinks(before, c.bin.cut_direction)
     /\ MergeRounds(before, c.bin.cut_direction) <= Max(Len(before) - 1, 0)
     /\ Len(after) = Len(before) - MergeRounds(before, c.bin.cut_direction)
     /\ MergeablePairs(after, c.bin.cut_direction) = {}

\* Greedy: the pass has placed the pi - 1 pieces before piece pi.  Search:
\* the call at depth i of the stack is the call for piece i, its bin list
\* holds the i - 1 pieces before it, and the stack is at most one deeper
\* than the piece list is long
DepthBound ==
  /\ pc = "greedy" => (pi <= Len(pieces) + 1 /\ PlacedCount(cur) = pi - 1)
  /\ pc = "bb" =>
       /\ Len(stack) <= Len(pieces) + 1
       /\ \A i \in DOMAIN stack :
            stack[i].idx = i /\ PlacedCount(stack[i].bs) = i - 1

\* A step of a greedy pass places one piece, or ends the pass; a step of
\* the search returns from the call on top, moves on inside it, or starts
\* one call for the next piece with exactly one more placement
OneStep ==
  /\ (pc = "greedy" /\ pc' = "greedy" /\ combo' = combo) =>
       (pi' = pi + 1 /\ PlacedCount(cur') = PlacedCount(cur) + 1)
  /\ (pc = "bb" /\ pc' = "bb") =>
       \/ stack' = Pop
       \/ /\ Len(stack') = Len(stack)
          /\ stack'[Len(stack)].idx = Top.idx
          /\ << stack'[Len(stack)].stage, stack'[Len(stack)].k >> # << Top.stage, Top.k >>
       \/ /\ Len(stack') = Len(stack) + 1
          /\ stack'[Len(stack')].idx = Top.idx + 1
          /\ PlacedCount(stack'[Len(stack')].bs) = PlacedCount(Top.bs) + 1

\* C29: solve terminates on every valid input.  The merge loop of every
\* call of place halts, each round removing one free rect; each step of a
\* greedy pass places one piece; every step of the search returns or goes
\* one piece deeper after placing exactly one piece, so the call at depth
\* idx holds idx placements and the depth is bounded by the piece count;
\* and every run on a valid input reaches the return of solve
C29_Terminates ==
  /\ [](DepthBound /\ \A c \in PlaceCallsNext : IsSome(c.scored) => MergeHalts(c))
  /\ [][OneStep]_vars
  /\ ((self # NoSolver /\ ValidInput(self)) ~> pc = "done")

\* The search is at its deepest on a valid input: one call per piece, and
\* the leaf
C29_Witness ==
  /\ pc = "bb"
  /\ ValidInput(self)
  /\ Len(pieces) >= 3
  /\ Len(stack) = Len(pieces) + 1
  /\ PlacedCount(Top.bs) = Len(pieces)

(***************************************************************************)
(* C30: what place changes in the bin.                                     *)
(***************************************************************************)
\* The step is a call of place on the bin
Placed == pc = "bin" /\ sheet' # sheet

\* The step is the call of place with the candidate and piece of call: the
\* placement appended lies at the origin of the free rect the candidate
\* names and holds the piece in the orientation the candidate names
Appends(call) ==
  /\ sheet' = place(sheet, call.scored, call.piece)
  /\ LET last == sheet'.placements[Len(sheet'.placements)]
     IN /\ last.x = FreeOf(call.scored).x
        /\ last.y = FreeOf(call.scored).y
        /\ last.rect = IF call.scored.rotated THEN rotated(call.piece) ELSE call.piece
        /\ last.rotated = call.scored.rotated

\* C30: a call of place appends exactly one placement at the end of the
\* placements list: its origin is the origin of the free rect the candidate
\* names, its rect is the piece in the orientation the candidate names; the
\* earlier placements, the stock, the kerf and the cut direction stay as
\* they were, and the first placement of the sheet is at (0, 0).  The
\* candidate is the one the caller holds, or the one find_best returns for
\* the piece on the bin as it is, and then the piece fits in the free rect
C30_PlaceAppends ==
  [][Placed =>
       /\ Len(sheet'.placements) = Len(sheet.placements) + 1
       /\ SubSeq(sheet'.placements, 1, Len(sheet.placements)) = sheet.placements
       /\ sheet'.stock = sheet.stock
       /\ sheet'.kerf = sheet.kerf
       /\ sheet'.cut_direction = sheet.cut_direction
       /\ sheet'.placements[1].x = 0 /\ sheet'.placements[1].y = 0
       /\ \/ /\ IsSome(caller.held)
             /\ Unwrap(caller.held).scored.free_idx <= Len(sheet.free_rects)
             /\ Appends(Unwrap(caller.held))
          \/ \E c \in BinCalls :
               /\ IsSome(Found(c))
               /\ Appends(Held(Unwrap(Found(c)), c.piece))
               /\ fits_in(sheet'.placements[Len(sheet'.placements)].rect,
                          FreeOf(Unwrap(Found(c))).rect)]_vars

\* The bin holds three placements, the last one rotated and away from the
\* origin of the sheet
C30_Witness ==
  /\ pc = "bin"
  /\ Len(sheet.placements) = 3
  /\ sheet.placements[3].rotated
  /\ sheet.placements[3].x > 0
  /\ sheet.placements[3].y > 0
  /\ sheet.placements[1].x = 0 /\ sheet.placements[1].y = 0

====
